---- MODULE Spec2Model ----
(***************************************************************************)
(* Model of the energy-tracking scan plans of pcdshub/rix:                 *)
(*   src/rix/energy_scan.py   energy_fly_scan_step, energy_fly_duration_   *)
(*                            scan, _generic_nd_scan, energy_scan_setup,   *)
(*                            energy_scan_cleanup, EnergyRequestHandler,   *)
(*                            DaqHelper                                    *)
(*   src/rix/vernier_scan.py  interpolation_mono_vernier_duration_scan,    *)
(*                            daq_interpolation_mono_vernier_duration_scan *)
(*                                                                         *)
(* A scan is a generator of messages that the RunEngine interprets.  The   *)
(* model flattens each plan into the sequence of operations it performs,   *)
(* with the try/finally brackets of bpp.finalize_wrapper (and of           *)
(* bpp.stage_wrapper, which is a finalize_wrapper around the stage         *)
(* message and the plan) kept as markers.  pc is the operation the plan    *)
(* is about to perform; an exception or a cancellation delivered at a      *)
(* suspend point unwinds through the enclosing finally blocks, innermost   *)
(* first, exactly as Python does.                                          *)
(***************************************************************************)
EXTENDS Integers, Sequences, FiniteSets, TLC

\* ------------------------------------------------------------------ bounds
\* largest num_steps argument of a duration scan
MaxSteps == 1
\* largest number of trajectory moves nbp.duration_scan makes before the
\* duration has elapsed, and largest number of outer steps of an ND scan
MaxMoves == 2
\* largest number of calls made on one EnergyRequestHandler
MaxCalls == 4
\* largest num_steps the trajectory functions are applied to
MaxTrajSteps == 3
\* half-width, in thousands of urad, of the range of grating pitches the
\* calibration functions are applied to
CalSpan == 5
\* largest number of move_to / stop calls made on one simulated axis
MaxAxisCalls == 2
\* largest position a simulated axis is sent to
MaxPos == 2

\* ---------------------------------------------------------------- constants
\* Python's None for the integer-valued fields (cbid, original_speed)
None == -1

DaqStates == {"configured", "starting", "running", "paused", "error"}

\* the exceptions a plan can see, the values of exc
\*   ValueError    calculate_bounds, neither bound kind given
\*   RuntimeError  DaqHelper.stage / daq_and_scan, session not configured
\*   FailedStatus  a hardware command failed (thrown in by the RunEngine)
\*   RequestAbort  cancellation (thrown in by the RunEngine)

VARIABLES
    args,            \* the arguments of the scan call
    prog,            \* the plan of the call: the operations it performs
    pc,              \* index in Prog of the operation about to be performed
    exc,             \* the exception propagating in the plan, or "none"
    origExc,         \* the first exception raised in the plan, or "none"
    raisedAt,        \* index in prog where origExc was raised, or 0
    daqInit,         \* the state of the session when the scan was called
    daqState,        \* DaqControl: state of the acquisition session
    daqRecord,       \* DaqControl: the record flag ("unset" until written)
    velocity,        \* mono_grating.velocity
    settle_time,     \* mono_grating.settle_time
    position,        \* mono_grating.position
    goal,            \* target of the grating move in flight
    subs,            \* callback ids subscribed on the grating position
    nextCid,         \* the id the next subscribe call returns
    cbid,            \* EnergyRequestHandler.cbid / the vernier plan's cbid
    urad_bounds,     \* the trajectory of the plan (<<>> until computed)
    original_speed,  \* the velocity snapshot of energy_scan_setup
    log,             \* the commands issued so far, in order
    fnIn,            \* the arguments a pure function is applied to
    fnOut,           \* the values it has returned so far
    motor,           \* FixSlowMotor: its fields and its caller's position
    steppers,        \* FixSlowMotor: the update threads started so far
    upd              \* the energy-update callback: the mirror signal, the
                     \* notifications queued and the requests written

hwVars == <<daqState, daqRecord, velocity, settle_time, position, goal, subs,
            nextCid>>
\* the variables of a scan that the handler, the trajectory functions and
\* the simulated axis taken on their own leave alone
planVars == <<args, prog, pc, exc, origExc, raisedAt, daqInit, daqState,
              daqRecord, settle_time, goal, urad_bounds, original_speed>>
subVars == <<subs, nextCid, cbid>>
fnVars == <<fnIn, fnOut>>
axisVars == <<motor, steppers>>
vars == <<args, prog, pc, exc, origExc, raisedAt, daqInit, daqState,
          daqRecord, velocity, settle_time, position, goal, subs, nextCid,
          cbid, urad_bounds, original_speed, log, fnIn, fnOut, motor,
          steppers, upd>>

\* no scan is running
PlanIdle ==
    /\ args = <<>> /\ prog = <<>> /\ pc = 1
    /\ exc = "none" /\ origExc = "none" /\ raisedAt = 0
    /\ daqInit = "configured" /\ daqState = "configured"
    /\ daqRecord = "unset"
    /\ settle_time = 0 /\ goal = 0
    /\ urad_bounds = <<>> /\ original_speed = None
\* no pure function is being applied
FnIdle == fnIn = <<>> /\ fnOut = <<>>
\* no simulated axis is in use
AxisIdle == motor = <<>> /\ steppers = <<>>
\* no position callback is being followed
UpdIdle == upd = <<>>

\* ------------------------------------------------------------ calibration
\* rix.rix_utilities.calc_pitch (not part of the sources at hand): the
\* grating pitch of a photon energy, falling as the energy rises.  Integer
\* stand-in over the small energies of EvChoices.
calc_pitch(ev) == 12 \div ev

\* calc_pitch(ev, pos), the same with the mirror angle given, here as its
\* displacement from the default mirror angle (0: the default itself): the
\* pitch follows the mirror.
calc_pitch_at(ev, pos) == (12 \div ev) + pos

\* ------------------------------------------------------ plans as programs
Op(o) == <<[op |-> o, arg |-> 0, id |-> ""]>>
OpA(o, a) == <<[op |-> o, arg |-> a, id |-> ""]>>
Mark(o, i) == <<[op |-> o, arg |-> 0, id |-> i]>>

\* bps.mv(mono_grating, urad_bounds[i]): a set message, then a wait message
Mv(i) == OpA("mv_set", i) \o Op("mv_wait")

\* bpp.finalize_wrapper(plan, final_plan)
finalize_wrapper(i, plan, final_plan) ==
    Mark("try", i) \o plan \o Mark("finally", i) \o final_plan
        \o Mark("endfinally", i)

\* bpp.stage_wrapper(plan, [device]): finalize_wrapper(stage + plan, unstage)
stage_wrapper(i, stage, unstage, plan) ==
    finalize_wrapper(i, Op(stage) \o plan, Op(unstage))

\* mutant: the handler staged and unstaged around the plan with no finally
energy_request_wrapperMutNoTry(plan) ==
    Op("stage_er") \o plan \o Op("unstage_er")

energy_request_wrapper(plan) ==
    stage_wrapper("er", "stage_er", "unstage_er", plan)

\* mutant: the daq staged and unstaged around the plan with no finally
daq_helper_wrapperMutNoTry(plan) ==
    Op("stage_daq") \o plan \o Op("unstage_daq")

daq_helper_wrapper(plan) ==
    stage_wrapper("daq", "stage_daq", "unstage_daq", plan)

\* mutant: the requested velocity set before the move to the first point
energy_scan_setupMutVeloFirst ==
    Op("null") \o Op("read_velo") \o Op("velo_set") \o Op("velo_wait")
        \o Op("set_settle") \o Mv(0)
energy_scan_setup ==
    Op("null") \o Op("read_velo") \o Op("set_settle") \o Mv(0)
        \o Op("velo_set") \o Op("velo_wait")

energy_scan_cleanup == Op("cleanup_set") \o Op("cleanup_wait")

\* nbp.duration_scan([], mono_grating, urad_bounds, duration=...): the
\* sequencer cycles through the trajectory until the duration has elapsed,
\* here after n moves
RECURSIVE duration_moves(_, _)
duration_moves(i, n) ==
    IF i >= n THEN <<>> ELSE Mv(i) \o duration_moves(i + 1, n)

duration_scan(n) == duration_moves(0, n)

\* _energy_per_step: one_nd_step, then the grating to bounds[1] and back
\* mutant: the sweep without its way back
energy_per_stepMutOneWay == Op("one_nd_step") \o Mv(1)
energy_per_step == Op("one_nd_step") \o Mv(1) \o Mv(0)

\* bp.scan / relative_scan / list_scan / grid_scan / list_grid_scan with
\* per_step=_energy_per_step: n outer steps, each running the hook
RECURSIVE specific_plan(_)
specific_plan(n) ==
    IF n = 0 THEN <<>> ELSE energy_per_step \o specific_plan(n - 1)

energy_fly_duration_scan(a) ==
    Op("calculate_bounds") \o Op("expand") \o energy_scan_setup
        \o finalize_wrapper("cleanup",
                            energy_request_wrapper(duration_scan(a.moves)),
                            energy_scan_cleanup)

\* "if fake_all: ... fake_daq = True": the value of fake_daq the plans use
NoAcquisition(a) == a.fake_all \/ a.fake_daq

\* mutant: the daq bracket applied whatever fake_daq says
energy_fly_scan_stepMutAlwaysDaq(a) ==
    daq_helper_wrapper(energy_fly_duration_scan(a))

energy_fly_scan_step(a) ==
    IF NoAcquisition(a)
    THEN energy_fly_duration_scan(a)
    ELSE daq_helper_wrapper(energy_fly_duration_scan(a))

\* mutant: the handler bracket put outside the acquisition bracket
generic_nd_scanMutHandlerFirst(a) ==
    LET inner == specific_plan(a.moves)
    IN  Op("calculate_bounds") \o energy_scan_setup
            \o finalize_wrapper("cleanup",
                                IF NoAcquisition(a)
                                THEN energy_request_wrapper(inner)
                                ELSE energy_request_wrapper(
                                         daq_helper_wrapper(inner)),
                                energy_scan_cleanup)
generic_nd_scan(a) ==
    LET inner == energy_request_wrapper(specific_plan(a.moves))
    IN  Op("calculate_bounds") \o energy_scan_setup
            \o finalize_wrapper("cleanup",
                                IF NoAcquisition(a) THEN inner
                                ELSE daq_helper_wrapper(inner),
                                energy_scan_cleanup)

\* mutant: the vernier callback subscribed before the move to the start
interpolation_mono_vernier_duration_scanMutSubFirst(a) ==
    Op("vernier_bounds")
        \o finalize_wrapper("vsub",
                            Op("null") \o Op("vernier_subscribe") \o Mv(0)
                                \o duration_scan(a.moves),
                            Op("null") \o Op("vernier_unsubscribe"))

\* sub_and_move / cleanup_sub of the vernier duration scan
interpolation_mono_vernier_duration_scan(a) ==
    Op("vernier_bounds")
        \o finalize_wrapper("vsub",
                            Op("null") \o Mv(0) \o Op("vernier_subscribe")
                                \o duration_scan(a.moves),
                            Op("null") \o Op("vernier_unsubscribe"))

\* daq_and_scan / stop_daq of the vernier duration scan
daq_interpolation_mono_vernier_duration_scan(a) ==
    finalize_wrapper("vdaq",
                     Op("null") \o Op("daq_and_scan")
                         \o interpolation_mono_vernier_duration_scan(a),
                     Op("null") \o Op("stop_daq"))

mono_vernier_scan(a) ==
    IF a.fake_daq
    THEN interpolation_mono_vernier_duration_scan(a)
    ELSE daq_interpolation_mono_vernier_duration_scan(a)

Program(a) ==
    CASE a.kind = "fly" -> energy_fly_scan_step(a)
      [] a.kind = "nd" -> generic_nd_scan(a)
      [] a.kind = "vernier" -> mono_vernier_scan(a)

Prog == prog
End == Len(Prog) + 1
Done == pc = End

\* ------------------------------------------------- generator control flow
Min(S) == CHOOSE x \in S : \A y \in S : x <= y

\* the finally block an exception raised at index i unwinds to: that of
\* the innermost try bracket open at i, 0 when there is none
Handler(p, i) ==
    LET open == {k \in (i + 1)..Len(p) :
                    /\ p[k].op = "finally"
                    /\ \E j \in 1..(i - 1) :
                          p[j].op = "try" /\ p[j].id = p[k].id}
    IN  IF open = {} THEN 0 ELSE Min(open)

\* the next operation from index i on: markers are passed over; the end of
\* a finally block re-raises the exception in flight
RECURSIVE Norm(_, _, _)
Norm(p, i, e) ==
    IF i > Len(p) THEN Len(p) + 1
    ELSE CASE p[i].op \in {"try", "finally"} -> Norm(p, i + 1, e)
           [] p[i].op = "endfinally" ->
                IF e = "none" THEN Norm(p, i + 1, e)
                ELSE LET h == Handler(p, i)
                     IN  IF h = 0 THEN Len(p) + 1 ELSE Norm(p, h, e)
           [] OTHER -> i

\* index i lies inside a finally block (teardown code)
InFinally(p, i) ==
    \E j \in 1..(i - 1), k \in (i + 1)..Len(p) :
        /\ p[j].op = "finally"
        /\ p[k].op = "endfinally"
        /\ p[j].id = p[k].id

Cur == IF Done THEN "end" ELSE Prog[pc].op

\* the operation at pc completes and the plan runs on to its next one
Advance ==
    /\ pc' = Norm(Prog, pc + 1, exc)
    /\ UNCHANGED <<args, prog, exc, origExc, raisedAt, daqInit>>
    /\ UNCHANGED <<fnVars, axisVars, upd>>

\* exception e is raised at pc: unwind to the enclosing finally block, or
\* out of the plan
Raise(e) ==
    /\ exc' = e
    /\ origExc' = IF origExc = "none" THEN e ELSE origExc
    /\ raisedAt' = IF origExc = "none" THEN pc ELSE raisedAt
    /\ pc' = (LET h == Handler(Prog, pc)
              IN  IF h = 0 THEN End ELSE Norm(Prog, h, e))
    /\ UNCHANGED <<args, prog, daqInit>>
    /\ UNCHANGED <<fnVars, axisVars, upd>>

Emit(events) == log' = log \o events


\* ------------------------------------------------------------ trajectories
Abs(x) == IF x < 0 THEN -x ELSE x

Reverse(s) == [k \in 1..Len(s) |-> s[Len(s) + 1 - k]]

\* np.linspace(b[1], b[2], n + 2), the bounds chosen so that the points
\* are whole numbers
Linspace(b, n) ==
    [k \in 1..(n + 2) |-> b[1] + ((k - 1) * (b[2] - b[1])) \div (n + 1)]

\* (np.abs(points - start_point)).argmin(): the first index (from 0) of a
\* point nearest to start_point
ArgMin(points, start_point) ==
    Min({i \in 0..(Len(points) - 1) :
            \A j \in 0..(Len(points) - 1) :
                Abs(points[i + 1] - start_point)
                    <= Abs(points[j + 1] - start_point)})

\* mutant: np.roll(points, idx), a rotation the other way
RollMutRight(points, idx) ==
    [k \in 1..Len(points) |-> points[((k - 1 - idx) % Len(points)) + 1]]

\* np.roll(points, -idx)
Roll(points, idx) ==
    [k \in 1..Len(points) |-> points[((k - 1 + idx) % Len(points)) + 1]]

\* mutant: the whole of the spaced points again in reverse, ends included
ExpansionMutEndsAgain(b, num_steps) ==
    IF num_steps > 0
    THEN LET lin == Linspace(b, num_steps)
         IN  lin \o Reverse(lin)
    ELSE b

\* mutant: the interior points appended again in the same order
ExpansionMutNoReverse(b, num_steps) ==
    IF num_steps > 0
    THEN LET lin == Linspace(b, num_steps)
         IN  lin \o SubSeq(lin, 2, Len(lin) - 1)
    ELSE b
\* "urad_bounds = np.linspace(...)" and "urad_bounds = list(urad_bounds) +
\* list(reversed(urad_bounds[1:-1]))", under "if num_steps > 0"
Expansion(b, num_steps) ==
    IF num_steps > 0
    THEN LET lin == Linspace(b, num_steps)
         IN  lin \o Reverse(SubSeq(lin, 2, Len(lin) - 1))
    ELSE b

\* "idx = (np.abs(np_bounds - start_point)).argmin()" and "urad_bounds =
\* list(np.roll(np_bounds, -idx))"
Rebase(points, start_point) == Roll(points, ArgMin(points, start_point))

\* mutant: the trajectory rotated whatever the number of extra steps
ExpandBoundsMutAlways(b, num_steps, start_point) ==
    Rebase(IF num_steps > 0 THEN Expansion(b, num_steps) ELSE b,
           start_point)
\* energy_fly_duration_scan, "if num_steps > 0": extra steps between the
\* bounds, the middle steps again in reverse, rotated to start nearest to
\* the current position
ExpandBounds(b, num_steps, start_point) ==
    IF num_steps > 0
    THEN Rebase(Expansion(b, num_steps), start_point)
    ELSE b

\* MonoVernierConfig: the four configuration values of the interpolation
config == [low_ev |-> 1, high_ev |-> 2, low_urad |-> 12, high_urad |-> 6]

\* MonoVernierConfig.recalc + ev_to_urad: (ev - ev_offset) / ev_per_urad
\* + urad_offset with ev_per_urad = ev_diff / urad_diff, and 0 when a
\* division by zero is caught
ev_to_urad(ev) ==
    LET ev_diff == config.high_ev - config.low_ev
        urad_diff == config.high_urad - config.low_urad
    IN  IF urad_diff = 0 \/ ev_diff = 0 THEN 0
        ELSE ((ev - config.low_ev) * urad_diff) \div ev_diff
                 + config.low_urad

\* the trajectory point a move message with index i goes to
Target(i) == urad_bounds[(i % Len(urad_bounds)) + 1]

\* ------------------------------------------------------------------ inputs
EvChoices == {<<>>, <<1, 2>>}
UradChoices == {<<>>, <<0, 6>>}
Positions == {2, 5}

Args ==
    [kind : {"fly", "nd", "vernier"},
     ev_bounds : EvChoices,
     urad_bounds : UradChoices,
     fake_daq : BOOLEAN,
     fake_all : BOOLEAN,
     record : {"None", "True", "False"},
     num_steps : 0..MaxSteps,
     grating_speed : {5},
     delay : {0, 1},
     moves : 1..MaxMoves]

\* _generic_nd_scan takes no num_steps and passes delay=0; mono_vernier_scan
\* has no fake_all; fake_all makes fake_daq irrelevant; the record argument
\* is not used without the daq
ValidArgs(a) ==
    /\ a.kind = "nd" => a.num_steps = 0 /\ a.delay = 0
    /\ a.kind # "nd" => a.delay = 1
    /\ a.kind = "vernier" => ~a.fake_all
    /\ a.fake_all => ~a.fake_daq
    /\ NoAcquisition(a) => a.record = "True"

Init ==
    /\ args \in {a \in Args : ValidArgs(a)}
    /\ prog = Program(args)
    /\ pc = Norm(prog, 1, "none")
    /\ exc = "none"
    /\ origExc = "none"
    /\ raisedAt = 0
    /\ daqState \in DaqStates
    /\ daqInit = daqState
    /\ daqRecord = "unset"
    /\ velocity = 20
    /\ settle_time = 3
    /\ position \in Positions
    /\ goal = position
    /\ \E foreign \in BOOLEAN :
          /\ subs = IF foreign THEN {0} ELSE {}
          /\ nextCid = IF foreign THEN 1 ELSE 0
    /\ cbid = IF args.kind = "vernier" THEN 0 ELSE None
    /\ urad_bounds = <<>>
    /\ original_speed = None
    /\ log = <<>>
    /\ FnIdle
    /\ AxisIdle
    /\ UpdIdle

\* ------------------------------------------------------------- DaqControl
\* mutant: the daq started whatever state it is in
StageDaqMutNoCheck ==
    /\ Cur = "stage_daq"
    /\ Advance
    /\ daqRecord' = IF args.record # "None" THEN args.record ELSE daqRecord
    /\ daqState' = "running"
    /\ Emit(<<"daq.stage", "daq.getState">>
            \o (IF args.record # "None" THEN <<"daq.setRecord">> ELSE <<>>)
            \o <<"daq.setState.running">>)
    /\ UNCHANGED <<velocity, settle_time, position, goal, subs, nextCid,
                   cbid, urad_bounds, original_speed>>

\* DaqHelper.stage
StageDaq ==
    /\ Cur = "stage_daq"
    /\ IF daqState # "configured"
       THEN /\ Raise("RuntimeError")
            /\ Emit(<<"daq.stage", "daq.getState">>)
            /\ UNCHANGED <<daqState, daqRecord>>
       ELSE /\ Advance
            /\ daqRecord' = IF args.record # "None" THEN args.record
                            ELSE daqRecord
            /\ daqState' = "running"
            /\ Emit(<<"daq.stage", "daq.getState">>
                    \o (IF args.record # "None" THEN <<"daq.setRecord">>
                        ELSE <<>>)
                    \o <<"daq.setState.running">>)
    /\ UNCHANGED <<velocity, settle_time, position, goal, subs, nextCid,
                   cbid, urad_bounds, original_speed>>

\* mutant: the session sent to configured whatever state it is in
UnstageDaqMutAlways ==
    /\ Cur = "unstage_daq"
    /\ Advance
    /\ daqState' = "configured"
    /\ Emit(<<"daq.unstage", "daq.getState", "daq.setState.configured">>)
    /\ UNCHANGED <<daqRecord, velocity, settle_time, position, goal, subs,
                   nextCid, cbid, urad_bounds, original_speed>>

\* DaqHelper.unstage
UnstageDaq ==
    /\ Cur = "unstage_daq"
    /\ Advance
    /\ IF daqState \in {"starting", "paused", "running"}
       THEN /\ daqState' = "configured"
            /\ Emit(<<"daq.unstage", "daq.getState",
                      "daq.setState.configured">>)
       ELSE /\ daqState' = daqState
            /\ Emit(<<"daq.unstage", "daq.getState">>)
    /\ UNCHANGED <<daqRecord, velocity, settle_time, position, goal, subs,
                   nextCid, cbid, urad_bounds, original_speed>>

\* daq_and_scan of the vernier scan, from the state read to the start of
\* the inner scan
DaqAndScan ==
    /\ Cur = "daq_and_scan"
    /\ IF daqState # "configured"
       THEN /\ Raise("RuntimeError")
            /\ Emit(<<"daq.stage", "daq.getState">>)
            /\ UNCHANGED <<daqState, daqRecord>>
       ELSE /\ Advance
            /\ daqRecord' = args.record
            /\ daqState' = "running"
            /\ Emit(<<"daq.stage", "daq.getState", "daq.setRecord",
                      "daq.setState.running">>)
    /\ UNCHANGED <<velocity, settle_time, position, goal, subs, nextCid,
                   cbid, urad_bounds, original_speed>>

\* stop_daq of the vernier scan
StopDaq ==
    /\ Cur = "stop_daq"
    /\ Advance
    /\ IF daqState \in {"starting", "paused", "running"}
       THEN /\ daqState' = "configured"
            /\ Emit(<<"daq.unstage", "daq.getState",
                      "daq.setState.configured">>)
       ELSE /\ daqState' = daqState
            /\ Emit(<<"daq.unstage", "daq.getState">>)
    /\ UNCHANGED <<daqRecord, velocity, settle_time, position, goal, subs,
                   nextCid, cbid, urad_bounds, original_speed>>


\* --------------------------------------------------------- bounds of a scan
\* get_scan_hw, "if fake_pre_mirror: sim_kw['pre_mirror_pos'] = Signal(...,
\* value=mpi_default)": the mirror source handed on in the keyword
\* arguments, None when the key is absent
sim_kw(a) == IF a.fake_all THEN 0 ELSE None

\* mutant: the energy bounds converted whenever they are given
calculate_boundsMutEnergyFirst(ev_bounds, urad, pre_mirror_pos) ==
    IF ev_bounds # <<>>
    THEN [k \in 1..Len(ev_bounds) |->
             IF pre_mirror_pos # None
             THEN calc_pitch_at(ev_bounds[k], pre_mirror_pos)
             ELSE calc_pitch(ev_bounds[k])]
    ELSE urad

\* calculate_bounds past its ValueError; pre_mirror_pos is the value of
\* kwargs['pre_mirror_pos'], None when the key is absent
calculate_bounds(ev_bounds, urad, pre_mirror_pos) ==
    IF urad = <<>>
    THEN [k \in 1..Len(ev_bounds) |->
             IF pre_mirror_pos # None
             THEN calc_pitch_at(ev_bounds[k], pre_mirror_pos)
             ELSE calc_pitch(ev_bounds[k])]
    ELSE urad

\* mutant: no check that a bound kind is given, a default range instead
CalculateBoundsMutNoCheck ==
    /\ Cur = "calculate_bounds"
    /\ Advance
    /\ urad_bounds' =
           IF args.ev_bounds = <<>> /\ args.urad_bounds = <<>>
           THEN <<0, 6>>
           ELSE calculate_bounds(args.ev_bounds, args.urad_bounds,
                                    sim_kw(args))
    /\ UNCHANGED <<hwVars, cbid, original_speed, log>>

\* calculate_bounds, called first thing by energy_fly_duration_scan and by
\* _generic_nd_scan
CalculateBounds ==
    /\ Cur = "calculate_bounds"
    /\ IF args.ev_bounds = <<>> /\ args.urad_bounds = <<>>
       THEN /\ Raise("ValueError")
            /\ UNCHANGED urad_bounds
       ELSE /\ Advance
            /\ urad_bounds' =
                   calculate_bounds(args.ev_bounds, args.urad_bounds,
                                    sim_kw(args))
    /\ UNCHANGED <<hwVars, cbid, original_speed, log>>

\* energy_fly_duration_scan, the num_steps block
Expand ==
    /\ Cur = "expand"
    /\ Advance
    /\ urad_bounds' = ExpandBounds(urad_bounds, args.num_steps, position)
    /\ UNCHANGED <<hwVars, cbid, original_speed, log>>

\* interpolation_mono_vernier_duration_scan up to the finalize_wrapper:
\* the bounds, their expansion, and cbid = 0
VernierBounds ==
    /\ Cur = "vernier_bounds"
    /\ IF args.ev_bounds = <<>> /\ args.urad_bounds = <<>>
       THEN /\ Raise("ValueError")
            /\ UNCHANGED <<urad_bounds, cbid>>
       ELSE /\ Advance
            /\ urad_bounds' =
                   ExpandBounds(
                       IF args.urad_bounds = <<>>
                       THEN [k \in 1..Len(args.ev_bounds) |->
                                ev_to_urad(args.ev_bounds[k])]
                       ELSE args.urad_bounds,
                       args.num_steps, position)
            /\ cbid' = 0
    /\ UNCHANGED <<hwVars, original_speed, log>>

\* ------------------------------------------------------- setup and cleanup
\* bps.null()
Null ==
    /\ Cur = "null"
    /\ Advance
    /\ UNCHANGED <<hwVars, cbid, urad_bounds, original_speed, log>>

\* energy_scan_setup: bps.read(mono_grating.velocity)
ReadVelo ==
    /\ Cur = "read_velo"
    /\ Advance
    /\ original_speed' = velocity
    /\ Emit(<<"velocity.read">>)
    /\ UNCHANGED <<hwVars, cbid, urad_bounds>>

\* energy_scan_setup: bps.abs_set(SettleProxy(mono_grating), delay), and
\* SettleProxy.set
SetSettle ==
    /\ Cur = "set_settle"
    /\ Advance
    /\ settle_time' = args.delay
    /\ Emit(<<"settle.set">>)
    /\ UNCHANGED <<daqState, daqRecord, velocity, position, goal, subs,
                   nextCid, cbid, urad_bounds, original_speed>>

\* bps.mv(mono_grating, point), the set message: the move is commanded
MvSet ==
    /\ Cur = "mv_set"
    /\ Advance
    /\ goal' = Target(Prog[pc].arg)
    /\ Emit(<<"mv">>)
    /\ UNCHANGED <<daqState, daqRecord, velocity, settle_time, position,
                   subs, nextCid, cbid, urad_bounds, original_speed>>

\* the callback of this scan (update_energy, update_vernier) is subscribed
\* to the position of the grating
OwnCallbackActive ==
    /\ \E i \in DOMAIN log : log[i] = "subscribe"
    /\ cbid # None
    /\ cbid \in subs

\* bps.mv(mono_grating, point), the wait message: the axis has arrived; on
\* its way the position has changed and the subscribed callback has
\* written to the request channel
MvWait ==
    /\ Cur = "mv_wait"
    /\ Advance
    /\ position' = goal
    /\ Emit(IF OwnCallbackActive /\ goal # position THEN <<"request">>
            ELSE <<>>)
    /\ UNCHANGED <<daqState, daqRecord, velocity, settle_time, goal, subs,
                   nextCid, cbid, urad_bounds, original_speed>>

\* energy_scan_setup: bps.abs_set(mono_grating.velocity, grating_speed,
\* wait=True), the set message
VeloSet ==
    /\ Cur = "velo_set"
    /\ Advance
    /\ velocity' = args.grating_speed
    /\ Emit(<<"velocity.set">>)
    /\ UNCHANGED <<daqState, daqRecord, settle_time, position, goal, subs,
                   nextCid, cbid, urad_bounds, original_speed>>

\* ... and its wait message
VeloWait ==
    /\ Cur = "velo_wait"
    /\ Advance
    /\ UNCHANGED <<hwVars, cbid, urad_bounds, original_speed, log>>

\* mutant: a cleanup that also puts the settle delay back
CleanupSetMutRestoresSettle ==
    /\ Cur = "cleanup_set"
    /\ Advance
    /\ velocity' = original_speed
    /\ settle_time' = 3
    /\ Emit(<<"velocity.restore">>)
    /\ UNCHANGED <<daqState, daqRecord, position, goal, subs,
                   nextCid, cbid, urad_bounds, original_speed>>
\* energy_scan_cleanup: bps.abs_set(mono_grating.velocity, original_speed,
\* wait=True), the set message
CleanupSet ==
    /\ Cur = "cleanup_set"
    /\ Advance
    /\ velocity' = original_speed
    /\ Emit(<<"velocity.restore">>)
    /\ UNCHANGED <<daqState, daqRecord, settle_time, position, goal, subs,
                   nextCid, cbid, urad_bounds, original_speed>>

\* ... and its wait message
CleanupWait ==
    /\ Cur = "cleanup_wait"
    /\ Advance
    /\ UNCHANGED <<hwVars, cbid, urad_bounds, original_speed, log>>

\* bps.one_nd_step of _energy_per_step: the outer motors are moved and the
\* detectors read
OneNdStep ==
    /\ Cur = "one_nd_step"
    /\ Advance
    /\ Emit(<<"outer.mv">>)
    /\ UNCHANGED <<hwVars, cbid, urad_bounds, original_speed>>

\* ---------------------------------------------------- EnergyRequestHandler
\* EnergyRequestHandler.stage: start_requests, which first calls
\* stop_requests and then subscribes
StageER ==
    /\ Cur = "stage_er"
    /\ Advance
    /\ subs' = (IF cbid # None THEN subs \ {cbid} ELSE subs) \cup {nextCid}
    /\ cbid' = nextCid
    /\ nextCid' = nextCid + 1
    /\ Emit((IF cbid # None THEN <<"unsubscribe">> ELSE <<>>)
            \o <<"subscribe">>)
    /\ UNCHANGED <<daqState, daqRecord, velocity, settle_time, position,
                   goal, urad_bounds, original_speed>>

\* mutant: the unsubscribe raises after the callback has been removed
UnstageERMutRaises ==
    /\ Cur = "unstage_er"
    /\ Raise("RuntimeError")
    /\ subs' = IF cbid # None THEN subs \ {cbid} ELSE subs
    /\ cbid' = None
    /\ Emit(IF cbid # None THEN <<"unsubscribe">> ELSE <<>>)
    /\ UNCHANGED <<daqState, daqRecord, velocity, settle_time, position,
                   goal, nextCid, urad_bounds, original_speed>>

\* EnergyRequestHandler.unstage: stop_requests
UnstageER ==
    /\ Cur = "unstage_er"
    /\ Advance
    /\ subs' = IF cbid # None THEN subs \ {cbid} ELSE subs
    /\ cbid' = None
    /\ Emit(IF cbid # None THEN <<"unsubscribe">> ELSE <<>>)
    /\ UNCHANGED <<daqState, daqRecord, velocity, settle_time, position,
                   goal, nextCid, urad_bounds, original_speed>>

\* sub_and_move of the vernier scan, after the move to the start position:
\* cbid = mono_grating.subscribe(update_vernier); settle_time = delay
VernierSubscribe ==
    /\ Cur = "vernier_subscribe"
    /\ Advance
    /\ subs' = subs \cup {nextCid}
    /\ cbid' = nextCid
    /\ nextCid' = nextCid + 1
    /\ settle_time' = args.delay
    /\ Emit(<<"subscribe", "settle.set">>)
    /\ UNCHANGED <<daqState, daqRecord, velocity, position, goal,
                   urad_bounds, original_speed>>

\* cleanup_sub of the vernier scan: mono_grating.unsubscribe(cbid)
VernierUnsubscribe ==
    /\ Cur = "vernier_unsubscribe"
    /\ Advance
    /\ subs' = subs \ {cbid}
    /\ Emit(<<"unsubscribe">>)
    /\ UNCHANGED <<daqState, daqRecord, velocity, settle_time, position,
                   goal, nextCid, cbid, urad_bounds, original_speed>>

\* ------------------------------------------------- failure and cancellation
\* the operations that are messages to the RunEngine: the suspend points
Messages ==
    {"null", "read_velo", "set_settle", "mv_set", "mv_wait", "velo_set",
     "velo_wait", "stage_er", "stage_daq", "one_nd_step"}

\* the messages whose hardware command can fail
Fallible ==
    {"read_velo", "set_settle", "mv_set", "mv_wait", "velo_set",
     "velo_wait", "one_nd_step"}

\* The RunEngine throws into the plan at the suspend point it is waiting
\* at: the failure of the command of the message, or a cancellation.  The
\* teardown messages are taken to succeed.
Throw ==
    /\ Cur \in Messages
    /\ ~InFinally(Prog, pc)
    /\ \E e \in {"FailedStatus", "RequestAbort"} :
          /\ e = "FailedStatus" => Cur \in Fallible
          /\ Raise(e)
    /\ UNCHANGED <<hwVars, cbid, urad_bounds, original_speed, log>>

Next ==
    \/ StageDaq
    \/ UnstageDaq
    \/ DaqAndScan
    \/ StopDaq
    \/ CalculateBounds
    \/ Expand
    \/ VernierBounds
    \/ Null
    \/ ReadVelo
    \/ SetSettle
    \/ MvSet
    \/ MvWait
    \/ VeloSet
    \/ VeloWait
    \/ CleanupSet
    \/ CleanupWait
    \/ OneNdStep
    \/ StageER
    \/ UnstageER
    \/ VernierSubscribe
    \/ VernierUnsubscribe
    \/ Throw

Spec == Init /\ [][Next]_vars

\* ================================================== EnergyRequestHandler
\* The handler taken on its own: any sequence of start_requests,
\* stop_requests, stage and unstage calls on one handler.  A handler is the
\* record of its cbid, the subscriptions of grating_sig with the id the
\* next subscribe call returns, and the subscribe / unsubscribe calls a
\* method has made on grating_sig.
CallNames ==
    {"call.start_requests", "call.stop_requests", "call.stage",
     "call.unstage"}

\* mutant: the callback id kept after the unsubscribe
stop_requestsMutKeepId(h) ==
    IF h.cbid # None
    THEN [h EXCEPT !.subs = @ \ {h.cbid},
                   !.calls = @ \o <<"unsubscribe">>]
    ELSE h

\* EnergyRequestHandler.stop_requests
stop_requests(h) ==
    IF h.cbid # None
    THEN [h EXCEPT !.subs = @ \ {h.cbid},
                   !.cbid = None,
                   !.calls = @ \o <<"unsubscribe">>]
    ELSE h

\* mutant: a new subscription without the stop_requests call first
start_requestsMutNoStop(h) ==
    [h EXCEPT !.subs = @ \cup {h.nextCid},
              !.cbid = h.nextCid,
              !.nextCid = @ + 1,
              !.calls = @ \o <<"subscribe">>]

\* EnergyRequestHandler.start_requests
start_requests(h) ==
    LET s == stop_requests(h)
    IN  [s EXCEPT !.subs = @ \cup {s.nextCid},
                  !.cbid = s.nextCid,
                  !.nextCid = @ + 1,
                  !.calls = @ \o <<"subscribe">>]

\* EnergyRequestHandler.stage
stage(h) == start_requests(h)

\* EnergyRequestHandler.unstage
unstage(h) == stop_requests(h)

\* the handler as it is now, no call made yet by the method about to run
handler == [subs |-> subs, cbid |-> cbid, nextCid |-> nextCid,
            calls |-> <<>>]

CallsMade == Cardinality({i \in DOMAIN log : log[i] \in CallNames})

\* a method of the handler is called and returns r
Returns(name, r) ==
    /\ CallsMade < MaxCalls
    /\ subs' = r.subs
    /\ cbid' = r.cbid
    /\ nextCid' = r.nextCid
    /\ log' = log \o <<name>> \o r.calls
    /\ UNCHANGED <<planVars, velocity, position, fnVars, axisVars, upd>>

StartRequests == Returns("call.start_requests", start_requests(handler))
StopRequests == Returns("call.stop_requests", stop_requests(handler))
Stage == Returns("call.stage", stage(handler))
Unstage == Returns("call.unstage", unstage(handler))

\* a new handler (cbid None) on a grating signal that another party has
\* subscribed to already, with callback id 0
InitHandler ==
    /\ PlanIdle
    /\ FnIdle
    /\ AxisIdle
    /\ UpdIdle
    /\ velocity = 0
    /\ position = 0
    /\ subs = {0}
    /\ nextCid = 1
    /\ cbid = None
    /\ log = <<>>

NextHandler ==
    \/ StartRequests
    \/ StopRequests
    \/ Stage
    \/ Unstage

SpecHandler == InitHandler /\ [][NextHandler]_vars

\* =================================================== trajectory functions
\* The expansion and the rebasing of a duration scan taken on their own,
\* applied as energy_fly_duration_scan and the vernier duration scan apply
\* them: the bounds expanded, then (num_steps > 0) rebased to the current
\* position.
RECURSIVE Factorial(_)
Factorial(n) == IF n <= 1 THEN 1 ELSE n * Factorial(n - 1)

\* the bounds lie on a grid that every num_steps + 1 divides, so that the
\* points of np.linspace are whole numbers (its floating-point rounding is
\* not modelled)
TrajGrid == Factorial(MaxTrajSteps + 1)

TrajInputs ==
    [bounds : {<<lo, hi>> : lo \in {0, TrajGrid, 2 * TrajGrid},
                           hi \in {0, TrajGrid, 2 * TrajGrid}},
     num_steps : 0..MaxTrajSteps,
     start_point : {(k * TrajGrid) \div 4 : k \in 0..8}]

InitTraj ==
    /\ PlanIdle
    /\ AxisIdle
    /\ UpdIdle
    /\ velocity = 0
    /\ position = 0
    /\ subs = {}
    /\ nextCid = 0
    /\ cbid = None
    /\ log = <<>>
    /\ fnIn \in TrajInputs
    /\ fnOut = <<>>

\* the num_steps block up to the reversed interior
TrajExpand ==
    /\ fnOut = <<>>
    /\ fnOut' = <<Expansion(fnIn.bounds, fnIn.num_steps)>>
    /\ UNCHANGED <<planVars, subVars, velocity, position, log, fnIn,
                   axisVars, upd>>

\* the num_steps block from start_point on
TrajRebase ==
    /\ Len(fnOut) = 1
    /\ fnIn.num_steps > 0
    /\ fnOut' = fnOut \o <<Rebase(fnOut[1], fnIn.start_point)>>
    /\ UNCHANGED <<planVars, subVars, velocity, position, log, fnIn,
                   axisVars, upd>>

NextTraj ==
    \/ TrajExpand
    \/ TrajRebase

SpecTraj == InitTraj /\ [][NextTraj]_vars

\* ================================================= calibration functions
\* calc_mono_ev and calc_grating_pitch of vernier_scan.py in fixed-point
\* arithmetic.  Angles are whole microradians (the results of arcsin and
\* of calc_grating_pitch tenths of a microradian), sines and cosines whole
\* multiples of 1e-9.  The trigonometric functions are their Taylor
\* polynomials about 0, whose remainder over the operating range (angles
\* below 0.05 rad) is under 1e-9; the arguments near pi/2 are reduced by
\* sin(pi/2 + t) = cos(t) and cos(pi/2 + t) = -sin(t).  Every product is
\* staged so that it stays below 2^31.

\* "g = (grating - 63358)/1e6", "offsetG = 63358.0e-6": urad
offsetG == 63358
\* "p = (pre_mirror - 90641)/1e6", "offsetM2 = 90641.0e-6": urad
offsetM2 == 90641
\* "b = 0.03662", "thetaM1 = 0.03662": urad
thetaM1 == 36620
\* "ex = 0.1221413", "thetaES = 0.1221413": to the urad
thetaES == 122141
\* h*c*D/el with D = 5e4: 0.0619920992 eV, in units of 1e-10 eV
hcD == 619920992
\* m*D0*eVmm with m = 1, D0 = 50.0, eVmm = 0.001239842: 0.0619921 eV, in
\* units of 1e-10 eV
eVmmD0 == 619921000

\* np.cos(t) for t in urad, in units of 1e-9: 1 - t^2/2 + t^4/24
Cos(t) ==
    LET sq == t * t
        tt == sq \div 1000
    IN  1000000000 - sq \div 2000
            + ((tt \div 100) * (tt \div 100)) \div 2400000

\* np.sin(x) for x = x2/2 urad, in units of 1e-9: x - x^3/6
Sin(x2) ==
    LET x == x2 \div 2
        xx == (x * x) \div 1000
    IN  x2 * 500 - ((xx \div 100) * x) \div 60000

\* np.arcsin(y) for y in units of 1e-7, in tenths of a urad: y + y^3/6
ArcSin(y) ==
    LET ys == y \div 10
        yy == (ys * ys) \div 1000
    IN  y + ((yy \div 100) * ys) \div 6000000

\* quotient and remainder of a * 10^k by c (a >= 0, c > 0), digit by digit
RECURSIVE ScaledDiv(_, _, _)
ScaledDiv(a, c, k) ==
    IF k = 0 THEN <<a \div c, a % c>>
    ELSE LET prev == ScaledDiv(a, c, k - 1)
         IN  <<10 * prev[1] + (10 * prev[2]) \div c, (10 * prev[2]) % c>>

\* a / c in units of 1e-7, for a and c in the same unit (c # 0)
Ratio(a, c) ==
    LET q == ScaledDiv(Abs(a), Abs(c), 7)[1]
    IN  IF (a < 0) = (c < 0) THEN q ELSE -q

\* calc_mono_ev: the photon energy h*c*D/(el*(sin(alpha) - sin(beta))) as
\* the quotient num/den, num in units of 1e-10 eV and den in units of 1e-9
calc_mono_ev(grating, pre_mirror) ==
    LET g == grating - offsetG
        p == pre_mirror - offsetM2
        \* alpha = pi/2 - g + 2*p - b, beta = pi/2 + g - ex
        sin_alpha == Cos(-g + 2 * p - thetaM1)
        sin_beta == Cos(g - thetaES)
    IN  [num |-> hcD, den |-> sin_alpha - sin_beta]

\* mutant: half of thetaM1 added where it is subtracted
calc_grating_pitchMutSign(energy, pre_mirror) ==
    LET pM2 == pre_mirror - offsetM2
        a0 == (eVmmD0 \div energy.num) * energy.den
                  + ((eVmmD0 % energy.num) * energy.den) \div energy.num
        cosine == -Sin(2 * pM2 - thetaM1 - thetaES)
        pG == 10 * pM2 + 5 * thetaM1 + 5 * thetaES
                  - ArcSin(Ratio(a0, 2 * cosine))
    IN  pG + 10 * offsetG

\* calc_grating_pitch: the grating pitch of an energy, in tenths of a urad
calc_grating_pitch(energy, pre_mirror) ==
    LET pM2 == pre_mirror - offsetM2
        \* a0 = m*D0*eVmm/energy, in units of 1e-9
        a0 == (eVmmD0 \div energy.num) * energy.den
                  + ((eVmmD0 % energy.num) * energy.den) \div energy.num
        \* np.cos(0.5*np.pi + pM2 - 0.5*thetaM1 - 0.5*thetaES)
        cosine == -Sin(2 * pM2 - thetaM1 - thetaES)
        \* 0.5*a0/cosine: a0 / (2*cosine)
        pG == 10 * pM2 - 5 * thetaM1 + 5 * thetaES
                  - ArcSin(Ratio(a0, 2 * cosine))
    IN  pG + 10 * offsetG

\* the operating range: grating pitches about 150000 urad, pre-mirror
\* pitches about the 158000 urad of _default_m_pi_pos
CalInputs ==
    [grating : {150000 + 1000 * k : k \in (-CalSpan)..CalSpan},
     pre_mirror : {158000 + 1000 * k : k \in (-3)..3}]

InitCal ==
    /\ PlanIdle
    /\ AxisIdle
    /\ UpdIdle
    /\ velocity = 0
    /\ position = 0
    /\ subs = {}
    /\ nextCid = 0
    /\ cbid = None
    /\ log = <<>>
    /\ fnIn \in CalInputs
    /\ fnOut = <<>>

CalcMonoEv ==
    /\ fnOut = <<>>
    /\ fnOut' = <<calc_mono_ev(fnIn.grating, fnIn.pre_mirror)>>
    /\ UNCHANGED <<planVars, subVars, velocity, position, log, fnIn,
                   axisVars, upd>>

CalcGratingPitch ==
    /\ Len(fnOut) = 1
    /\ fnOut[1].den # 0
    /\ fnOut' = fnOut \o <<calc_grating_pitch(fnOut[1], fnIn.pre_mirror)>>
    /\ UNCHANGED <<planVars, subVars, velocity, position, log, fnIn,
                   axisVars, upd>>

NextCal ==
    \/ CalcMonoEv
    \/ CalcGratingPitch

SpecCal == InitCal /\ [][NextCal]_vars

\* ======================================================== calculate_bounds
\* calculate_bounds as a function of its arguments: the energy bounds, the
\* angle bounds (<<>> for None) and the keyword argument pre_mirror_pos
\* (None when absent), each call on its own.
MaxEv == 3

BoundsInputs ==
    [ev_bounds : {<<>>} \cup {<<a, b>> : a, b \in 1..MaxEv},
     urad_bounds : {<<>>, <<0, 6>>, <<6, 0>>, <<3, 3>>},
     pre_mirror_pos : {None, 0, 1, 2}]

InitBounds ==
    /\ PlanIdle
    /\ AxisIdle
    /\ UpdIdle
    /\ velocity = 0
    /\ position = 0
    /\ subs = {}
    /\ nextCid = 0
    /\ cbid = None
    /\ log = <<>>
    /\ fnIn \in BoundsInputs
    /\ fnOut = <<>>

\* one call of calculate_bounds: the ValueError or the bounds returned
CallCalculateBounds ==
    /\ fnOut = <<>>
    /\ fnOut' =
           IF fnIn.ev_bounds = <<>> /\ fnIn.urad_bounds = <<>>
           THEN <<[raised |-> TRUE, value |-> <<>>]>>
           ELSE <<[raised |-> FALSE,
                   value |-> calculate_bounds(fnIn.ev_bounds,
                                              fnIn.urad_bounds,
                                              fnIn.pre_mirror_pos)]>>
    /\ UNCHANGED <<planVars, subVars, velocity, position, log, fnIn,
                   axisVars, upd>>

NextBounds == CallCalculateBounds

SpecBounds == InitBounds /\ [][NextBounds]_vars
\* =========================================================== FixSlowMotor
\* The simulated axis of energy_scan.py and of vernier_scan.py: a caller
\* that makes move_to (set -> _setup_move) and stop calls, and the update
\* threads that _setup_move starts.  SlowMotor.stop (pcdsdevices) sets
\* the flag _stop.  A thread is at its start, at the test of its while
\* loop ("check", where it also sleeps between two turns), between the
\* test and the position update ("step"), between the position update and
\* the write of the readback signal ("put", and "last" for the update onto
\* the goal), between that update and _done_moving(success=True)
\* ("notify"), or done.
\*
\* motor     kind     which FixSlowMotor: "energy_scan" or "vernier"
\*           stop     the flag _stop
\*           caller   "idle", or "mid": in _setup_move after self.stop()
\*           pending  the goal of the _setup_move in progress
\*           calls    the calls made so far
\*           stopped  stop() was called and no move was requested since
\*           readback the value of the signal user_readback
\*           op       the last call: its name, the goal of a move_to, and
\*                    whether _setup_move itself reported success
\* steppers  goal, pc, result ("none", "success", "failure"), step_size
\*           from       the position when the thread was started
\*           ticks      the position updates the thread has made while
\*                      it was the only thread and undisturbed
\*           late       its position updates since stop() (up to 2)
\*           atStop     it was running when stop() was called
\*           disturbed  stop() or another _setup_move came while it ran
\*           arg        the argument of the _set_position in progress
Live(t) == t.pc # "done"

\* "step_size = self.velocity.get() * step_time" with step_time = 0.1 in
\* energy_scan.py; the fixed steps of 1 in vernier_scan.py
StepSize(kind, velo) == IF kind = "vernier" THEN 1 ELSE velo \div 10

\* the threads as a stop (public, or that of _setup_move) finds them
Disturb(ts, public, already) ==
    [i \in DOMAIN ts |->
        IF Live(ts[i])
        THEN [ts[i] EXCEPT !.disturbed = TRUE,
                           !.atStop = IF public /\ ~already THEN TRUE
                                      ELSE @,
                           !.late = IF public /\ ~already THEN 0 ELSE @]
        ELSE [ts[i] EXCEPT !.atStop = IF public /\ ~already THEN FALSE
                                      ELSE @]]

InitAxis ==
    /\ PlanIdle
    /\ FnIdle
    /\ UpdIdle
    /\ subs = {}
    /\ nextCid = 0
    /\ cbid = None
    /\ log = <<>>
    /\ \E kind \in {"energy_scan", "vernier"} :
          /\ motor = [kind |-> kind, stop |-> FALSE, caller |-> "idle",
                      pending |-> None, calls |-> 0, stopped |-> FALSE,
                      readback |-> 0,
                      op |-> [name |-> "none", goal |-> None,
                              reported |-> FALSE]]
          /\ velocity \in IF kind = "vernier" THEN {20} ELSE {10, 20}
    /\ position \in {None, 0}
    /\ steppers = <<>>

\* FixSlowMotor._set_position of energy_scan.py writes the readback signal
\* after the position; vernier_scan.py has no such override
HasReadback == motor.kind = "energy_scan"

\* the call of move_to(g) as the record of the last call
MoveOp(g, reported) ==
    [name |-> "move_to", goal |-> g, reported |-> reported]

\* mutant: self.stop() called before the two early returns
MoveToMutStopFirst(g) ==
    /\ motor.caller = "idle"
    /\ motor.calls < MaxAxisCalls
    /\ IF position = None
       THEN /\ position' = g
            /\ motor' = [motor EXCEPT !.calls = @ + 1,
                                      !.stop = TRUE,
                                      !.readback = IF HasReadback THEN g
                                                   ELSE @,
                                      !.op = MoveOp(g, TRUE)]
            /\ UNCHANGED steppers
       ELSE IF g = position
       THEN /\ motor' = [motor EXCEPT !.calls = @ + 1,
                                      !.stop = TRUE,
                                      !.op = MoveOp(g, TRUE)]
            /\ UNCHANGED <<position, steppers>>
       ELSE /\ motor' = [motor EXCEPT !.calls = @ + 1,
                                      !.stop = TRUE,
                                      !.caller = "mid",
                                      !.pending = g,
                                      !.stopped = FALSE,
                                      !.op = MoveOp(g, FALSE)]
            /\ steppers' = Disturb(steppers, FALSE, motor.stopped)
            /\ UNCHANGED position
    /\ UNCHANGED <<planVars, subVars, velocity, log, fnVars,
                   upd>>

\* set(position) -> _setup_move(position), up to and including self.stop():
\* the two early returns with _done_moving(success=True), or the stop of
\* the move in progress
MoveTo(g) ==
    /\ motor.caller = "idle"
    /\ motor.calls < MaxAxisCalls
    /\ IF position = None
       THEN /\ position' = g
            /\ motor' = [motor EXCEPT !.calls = @ + 1,
                                      !.readback = IF HasReadback THEN g
                                                   ELSE @,
                                      !.op = MoveOp(g, TRUE)]
            /\ UNCHANGED steppers
       ELSE IF g = position
       THEN /\ motor' = [motor EXCEPT !.calls = @ + 1,
                                      !.op = MoveOp(g, TRUE)]
            /\ UNCHANGED <<position, steppers>>
       ELSE /\ motor' = [motor EXCEPT !.calls = @ + 1,
                                      !.stop = TRUE,
                                      !.caller = "mid",
                                      !.pending = g,
                                      !.stopped = FALSE,
                                      !.op = MoveOp(g, FALSE)]
            /\ steppers' = Disturb(steppers, FALSE, motor.stopped)
            /\ UNCHANGED position
    /\ UNCHANGED <<planVars, subVars, velocity, log, fnVars,
                   upd>>

\* _setup_move from "self._started_moving = True" on: the flag reset and
\* the new thread started
MoveStart ==
    /\ motor.caller = "mid"
    /\ motor' = [motor EXCEPT !.stop = FALSE,
                              !.caller = "idle",
                              !.pending = None]
    /\ steppers' = Append(steppers,
                          [goal |-> motor.pending, pc |-> "start",
                           result |-> "none", step_size |-> 0,
                           from |-> position, ticks |-> 0, late |-> 0,
                           atStop |-> FALSE, disturbed |-> FALSE,
                           arg |-> None])
    /\ UNCHANGED <<planVars, subVars, velocity, position, log, fnVars,
                   upd>>

\* FixSlowMotor.stop -> SlowMotor.stop
Stop ==
    /\ motor.caller = "idle"
    /\ motor.calls < MaxAxisCalls
    /\ motor' = [motor EXCEPT !.calls = @ + 1,
                              !.stop = TRUE,
                              !.stopped = TRUE,
                              !.op = [name |-> "stop", goal |-> None,
                                      reported |-> FALSE]]
    /\ steppers' = Disturb(steppers, TRUE, motor.stopped)
    /\ UNCHANGED <<planVars, subVars, velocity, position, log, fnVars,
                   upd>>

\* update_thread up to its while loop
StepperStart(i) ==
    /\ steppers[i].pc = "start"
    /\ steppers' = [steppers EXCEPT
                        ![i].pc = "check",
                        ![i].step_size = StepSize(motor.kind, velocity)]
    /\ UNCHANGED <<planVars, subVars, velocity, position, log, fnVars,
                   motor, upd>>

\* mutant: a while loop that does not look at the flag
StepperCheckMutNoStop(i) ==
    /\ steppers[i].pc = "check"
    /\ steppers' = IF position # steppers[i].goal
                   THEN [steppers EXCEPT ![i].pc = "step"]
                   ELSE [steppers EXCEPT ![i].pc = "done",
                                         ![i].result = "failure"]
    /\ UNCHANGED <<planVars, subVars, velocity, position, log, fnVars,
                   motor, upd>>

\* "while positioner.position != goal and not self._stop", and after the
\* loop "positioner._done_moving(success=False)"
StepperCheck(i) ==
    /\ steppers[i].pc = "check"
    /\ steppers' = IF position # steppers[i].goal /\ ~motor.stop
                   THEN [steppers EXCEPT ![i].pc = "step"]
                   ELSE [steppers EXCEPT ![i].pc = "done",
                                         ![i].result = "failure"]
    /\ UNCHANGED <<planVars, subVars, velocity, position, log, fnVars,
                   motor, upd>>

\* the counters of thread i after one more position update
Ticked(i) ==
    [steppers EXCEPT
        ![i].ticks = IF Len(steppers) = 1 /\ ~steppers[i].disturbed
                     THEN @ + 1 ELSE @,
        ![i].late = IF motor.stopped /\ @ < 2 THEN @ + 1 ELSE @]

\* thread i after "super()._set_position(p)": on to the write of the
\* readback signal where there is one, else to the sleep or to the done
\* notification
AfterUpdate(i, p, onGoal) ==
    [Ticked(i) EXCEPT
        ![i].pc = IF HasReadback
                  THEN (IF onGoal THEN "last" ELSE "put")
                  ELSE (IF onGoal THEN "notify" ELSE "check"),
        ![i].arg = IF HasReadback THEN p ELSE None]

\* mutant: a full step taken also when the goal is exactly one step away
StepperStepMutNoSnap(i) ==
    LET t == steppers[i]
        d == t.goal - position
    IN  /\ t.pc = "step"
        /\ IF d >= t.step_size
           THEN /\ position' = position + t.step_size
                /\ steppers' = AfterUpdate(i, position', FALSE)
           ELSE IF d <= -t.step_size
           THEN /\ position' = position - t.step_size
                /\ steppers' = AfterUpdate(i, position', FALSE)
           ELSE /\ position' = t.goal
                /\ steppers' = AfterUpdate(i, position', TRUE)
        /\ UNCHANGED <<planVars, subVars, velocity, log, fnVars, motor,
                       upd>>

\* the body of the while loop up to "super()._set_position(...)": a step
\* towards the goal, or the last step onto the goal
StepperStep(i) ==
    LET t == steppers[i]
        d == t.goal - position
    IN  /\ t.pc = "step"
        /\ IF d > t.step_size
           THEN /\ position' = position + t.step_size
                /\ steppers' = AfterUpdate(i, position', FALSE)
           ELSE IF d < -t.step_size
           THEN /\ position' = position - t.step_size
                /\ steppers' = AfterUpdate(i, position', FALSE)
           ELSE /\ position' = t.goal
                /\ steppers' = AfterUpdate(i, position', TRUE)
        /\ UNCHANGED <<planVars, subVars, velocity, log, fnVars, motor,
                       upd>>

\* "self.user_readback.put(position)" of _set_position, and the sleep that
\* follows a step short of the goal
StepperPut(i) ==
    /\ steppers[i].pc \in {"put", "last"}
    /\ motor' = [motor EXCEPT !.readback = steppers[i].arg]
    /\ steppers' = [steppers EXCEPT
                        ![i].pc = IF @ = "last" THEN "notify" ELSE "check",
                        ![i].arg = None]
    /\ UNCHANGED <<planVars, subVars, velocity, position, log, fnVars,
                   upd>>

\* "positioner._done_moving(success=True)" and the return
StepperNotify(i) ==
    /\ steppers[i].pc = "notify"
    /\ steppers' = [steppers EXCEPT ![i].pc = "done",
                                    ![i].result = "success"]
    /\ UNCHANGED <<planVars, subVars, velocity, position, log, fnVars,
                   motor, upd>>

\* one turn of update thread i
StepperRun(i) ==
    /\ i \in DOMAIN steppers
    /\ \/ StepperStart(i)
       \/ StepperCheck(i)
       \/ StepperStep(i)
       \/ StepperPut(i)
       \/ StepperNotify(i)

NextAxis ==
    \/ \E g \in 0..MaxPos : MoveTo(g)
    \/ MoveStart
    \/ Stop
    \/ \E i \in DOMAIN steppers : StepperStart(i)
    \/ \E i \in DOMAIN steppers : StepperCheck(i)
    \/ \E i \in DOMAIN steppers : StepperStep(i)
    \/ \E i \in DOMAIN steppers : StepperPut(i)
    \/ \E i \in DOMAIN steppers : StepperNotify(i)

SpecAxis == InitAxis /\ [][NextAxis]_vars

\* every update thread is a thread of its own that the interpreter keeps
\* scheduling: a turn that stays possible is taken
SpecAxisFair ==
    SpecAxis /\ \A i \in 1..MaxAxisCalls : WF_vars(StepperRun(i))


\* ================================================= energy-update callback
\* The callback that follows the grating while a scan runs: update_energy
\* of EnergyRequestHandler ("handler") and update_vernier of the vernier
\* duration scan ("vernier").  A position change of the grating is handed
\* by ophyd to every subscribed callback through the queue of its
\* dispatcher thread, which runs the callbacks one after the other and
\* catches and logs an exception that a callback raises.
\*
\* upd  kind      "handler" or "vernier"
\*      phase     "setup" (not yet subscribed), "running", "done"
\*      mirror    the value of the pre-mirror signal now
\*      cached    pre_mirror as read by the vernier scan before it
\*                subscribes (None for the handler)
\*      queue     the notified positions whose callback has not run yet
\*      requests  the writes to the request channel so far, each with the
\*                notified position, the mirror angle used, the value of
\*                the mirror signal at the time, the energy written,
\*                whether the write waited, and the failures logged before
\*      logged    the callback exceptions the dispatcher has logged
\*      moves     the position changes of the grating so far
\*      notes     the notifications queued so far
MaxNotes == 3

MirrorValues == {158000, 159000}
GratingValues == {150000, 151000}

\* rix.rix_utilities.calc_E (not part of the sources at hand): the photon
\* energy of a grating pitch and a pre-mirror pitch, h c D over
\* sin(alpha) - sin(beta), the formula that calc_mono_ev spells out
calc_E(value, pre_mirror) == calc_mono_ev(value, pre_mirror)

InitUpdate ==
    /\ PlanIdle
    /\ FnIdle
    /\ AxisIdle
    /\ velocity = 0
    /\ position \in GratingValues
    /\ subs = {}
    /\ nextCid = 1
    /\ log = <<>>
    /\ \E kind \in {"handler", "vernier"}, m \in MirrorValues :
          /\ cbid = IF kind = "vernier" THEN 0 ELSE None
          /\ upd = [kind |-> kind, phase |-> "setup", mirror |-> m,
                    cached |-> IF kind = "vernier" THEN m ELSE None,
                    queue |-> <<>>, requests |-> <<>>, logged |-> 0,
                    moves |-> 0, notes |-> 0]

\* stage -> start_requests, "cbid = mono_grating.subscribe(update_vernier)"
UpdSubscribe ==
    /\ upd.phase = "setup"
    /\ upd' = [upd EXCEPT !.phase = "running"]
    /\ IF upd.kind = "handler"
       THEN LET r == start_requests(handler)
            IN  /\ subs' = r.subs
                /\ cbid' = r.cbid
                /\ nextCid' = r.nextCid
       ELSE /\ subs' = subs \cup {nextCid}
            /\ cbid' = nextCid
            /\ nextCid' = nextCid + 1
    /\ UNCHANGED <<planVars, velocity, position, log, fnVars, axisVars>>

\* unstage -> stop_requests, "mono_grating.unsubscribe(cbid)"
UpdUnsubscribe ==
    /\ upd.phase = "running"
    /\ upd' = [upd EXCEPT !.phase = "done"]
    /\ IF upd.kind = "handler"
       THEN LET r == stop_requests(handler)
            IN  /\ subs' = r.subs
                /\ cbid' = r.cbid
                /\ nextCid' = r.nextCid
       ELSE /\ subs' = subs \ {cbid}
            /\ UNCHANGED <<cbid, nextCid>>
    /\ UNCHANGED <<planVars, velocity, position, log, fnVars, axisVars>>

\* the pre-mirror pitch, read back from the beamline, takes another value
MirrorDrift ==
    /\ \E m \in MirrorValues \ {upd.mirror} :
          upd' = [upd EXCEPT !.mirror = m]
    /\ UNCHANGED <<planVars, subVars, velocity, position, log, fnVars,
                   axisVars>>

\* the grating moves to p: the callback, if subscribed, is queued with p
PositionChange(p) ==
    /\ upd.moves < MaxNotes
    /\ p # position
    /\ position' = p
    /\ upd' = IF cbid \in subs
              THEN [upd EXCEPT !.moves = @ + 1,
                               !.notes = @ + 1,
                               !.queue = Append(@, p)]
              ELSE [upd EXCEPT !.moves = @ + 1]
    /\ UNCHANGED <<planVars, subVars, velocity, log, fnVars, axisVars>>

\* the write of one callback run
Request(value, mirror, energy) ==
    [value |-> value, mirror |-> mirror, current |-> upd.mirror,
     energy |-> energy, wait |-> FALSE, after |-> upd.logged]

\* mutant: a failed mirror read answered with the energy of the last
\* mirror angle that was seen
UpdateEnergyMutFallback ==
    /\ upd.kind = "handler"
    /\ upd.queue # <<>>
    /\ LET value == Head(upd.queue)
       IN  \E ok \in BOOLEAN :
              upd' = [upd EXCEPT
                         !.queue = Tail(@),
                         !.logged = IF ok THEN @ ELSE @ + 1,
                         !.requests =
                             Append(@, Request(value, upd.mirror,
                                               calc_E(value, upd.mirror)))]
    /\ UNCHANGED <<planVars, subVars, velocity, position, log, fnVars,
                   axisVars>>

\* EnergyRequestHandler.update_energy, run by the dispatcher for the next
\* queued notification: "self.pre_mirror_sig.get()" returns the value of
\* the signal or raises (the signal is an EpicsSignalRO); calc_E and
\* "self.request.put(calc, wait=False)" follow only when it returned.  The
\* exception leaves update_energy, which has no handler of its own, and is
\* caught and logged by the dispatcher thread.
UpdateEnergy ==
    /\ upd.kind = "handler"
    /\ upd.queue # <<>>
    /\ LET value == Head(upd.queue)
       IN  \E ok \in BOOLEAN :
              upd' = IF ok
                     THEN [upd EXCEPT
                              !.queue = Tail(@),
                              !.requests =
                                  Append(@, Request(value, upd.mirror,
                                                    calc_E(value,
                                                           upd.mirror)))]
                     ELSE [upd EXCEPT !.queue = Tail(@),
                                      !.logged = @ + 1]
    /\ UNCHANGED <<planVars, subVars, velocity, position, log, fnVars,
                   axisVars>>

\* update_vernier, run by the dispatcher for the next queued notification:
\* "energy_req.put(calc_mono_ev(grating=value, pre_mirror=pre_mirror))"
\* with the pre_mirror of the enclosing scan
UpdateVernier ==
    /\ upd.kind = "vernier"
    /\ upd.queue # <<>>
    /\ LET value == Head(upd.queue)
       IN  upd' = [upd EXCEPT
                      !.queue = Tail(@),
                      !.requests =
                          Append(@, Request(value, upd.cached,
                                            calc_mono_ev(value,
                                                         upd.cached)))]
    /\ UNCHANGED <<planVars, subVars, velocity, position, log, fnVars,
                   axisVars>>

NextUpdate ==
    \/ UpdSubscribe
    \/ UpdUnsubscribe
    \/ MirrorDrift
    \/ \E p \in GratingValues : PositionChange(p)
    \/ UpdateEnergy
    \/ UpdateVernier

SpecUpdate == InitUpdate /\ [][NextUpdate]_vars
\* ------------------------------------------------------ reading the record
Count(e) == Cardinality({i \in DOMAIN log : log[i] = e})
Issued(e) == \E i \in DOMAIN log : log[i] = e
Pos(e) == Min({i \in DOMAIN log : log[i] = e})
Before(a, b) == (Issued(a) /\ Issued(b)) => Pos(a) < Pos(b)

FlyOrNd == args.kind \in {"fly", "nd"}
UseDaq == ~NoAcquisition(args)

\* the running phase has been entered: the handler is staged and, unless
\* disabled, the acquisition has been started
RunningEntered ==
    /\ Issued("subscribe")
    /\ UseDaq => Issued("daq.setState.running")

\* a motion command of the grating or of an outer motor
MotionIssued == Issued("mv") \/ Issued("outer.mv")

\* a hardware command on the axis: a move, a velocity set, a settle set
AxisCommandIssued ==
    \/ MotionIssued
    \/ Issued("velocity.set")
    \/ Issued("velocity.restore")
    \/ Issued("settle.set")

\* the messages of energy_scan_setup in the plan: those before the
\* finalize_wrapper that brackets the cleanup
SetupIdx ==
    {i \in DOMAIN prog :
        /\ prog[i].op \in {"null", "read_velo", "set_settle", "mv_set",
                           "mv_wait", "velo_set", "velo_wait"}
        /\ \E k \in (i + 1)..Len(prog) :
              prog[k].op = "try" /\ prog[k].id = "cleanup"}

\* ------------------------------------------------------------------ claims

\* C1: in a fly or ND scan that has entered its running phase, however the
\* running phase ends (completion, exception, cancellation), each teardown
\* step - handler unsubscribe, acquisition stop, velocity restore - has been
\* executed once the scan has ended, and none is ever executed twice.
C1_TeardownExactlyOnce ==
    FlyOrNd =>
        /\ Count("unsubscribe") <= 1
        /\ Count("daq.unstage") <= 1
        /\ Count("velocity.restore") <= 1
        /\ (Done /\ RunningEntered) =>
              /\ Count("unsubscribe") = 1
              /\ Count("velocity.restore") = 1
              /\ UseDaq => Count("daq.unstage") = 1

C1_Witness ==
    /\ args.kind = "nd"
    /\ UseDaq
    /\ Done
    /\ RunningEntered
    /\ exc = "FailedStatus"
    /\ prog[raisedAt].op = "one_nd_step"

\* C2 as stated: with acquisition enabled, in the fly scan and in the ND
\* scans, the handler is unsubscribed first, then the acquisition is
\* stopped, and only then the velocity is restored.
C2_OrderAsClaimed ==
    (FlyOrNd /\ UseDaq) =>
        /\ Before("unsubscribe", "daq.unstage")
        /\ Before("daq.unstage", "velocity.restore")

\* C2, what the fly scan does instead: the velocity is restored before the
\* acquisition is stopped.
C2_Witness ==
    /\ args.kind = "fly"
    /\ UseDaq
    /\ Done
    /\ exc = "RequestAbort"
    /\ Issued("unsubscribe")
    /\ Issued("daq.unstage")
    /\ Issued("velocity.restore")
    /\ Pos("velocity.restore") < Pos("daq.unstage")

\* C3 as stated: when the acquisition start of a fly or ND scan raises
\* because the session is not configured, no motion command of the grating
\* or of an outer motor has been issued before.
C3_NoMotionBeforeDaqError ==
    (FlyOrNd /\ exc = "RuntimeError") => ~MotionIssued

\* C4 as stated: when a step of setup fails in a fly or ND scan, the
\* session has not been transitioned to running by the scan.
C4_SetupFailureDaqNotStarted ==
    (FlyOrNd /\ origExc = "FailedStatus" /\ raisedAt \in SetupIdx) =>
        ~Issued("daq.setState.running")

\* C5 as stated: once the velocity has been snapshotted, the velocity at
\* the end of the scan equals the snapshot, however the scan ends.
C5_VelocityRestored ==
    (FlyOrNd /\ Done /\ Issued("velocity.read")) => velocity = original_speed

\* C6: with acquisition enabled and the session configured when the scan
\* is called, the session is configured once the scan has ended, on every
\* termination path.
C6_SessionEndsConfigured ==
    (UseDaq /\ daqInit = "configured" /\ Done) => daqState = "configured"

C6_Witness ==
    /\ args.kind = "fly"
    /\ UseDaq
    /\ daqInit = "configured"
    /\ Done
    /\ exc = "FailedStatus"
    /\ Issued("subscribe")
    /\ Issued("daq.setState.configured")

\* C7: the acquisition start (DaqHelper.stage, daq_and_scan) raises when
\* the state it reads is not configured, and then issues no set-record and
\* no set-state; when the state is configured it sets the session running.
C7_StartOnlyFromConfigured ==
    [][(Cur \in {"stage_daq", "daq_and_scan"} /\ log' # log) =>
          LET new == SubSeq(log', Len(log) + 1, Len(log'))
          IN  IF daqState # "configured"
              THEN /\ exc' = "RuntimeError"
                   /\ daqState' = daqState
                   /\ daqRecord' = daqRecord
                   /\ \A i \in DOMAIN new :
                         new[i] \notin {"daq.setRecord",
                                        "daq.setState.running"}
              ELSE /\ exc' = "none"
                   /\ daqState' = "running"
                   /\ new[Len(new)] = "daq.setState.running"]_vars

C7_Witness ==
    /\ args.kind = "vernier"
    /\ exc = "RuntimeError"
    /\ daqState = "paused"
    /\ log = <<"daq.stage", "daq.getState">>

C9_NeitherBoundsRejected ==
    (FlyOrNd /\ args.ev_bounds = <<>> /\ args.urad_bounds = <<>>) =>
        /\ ~AxisCommandIssued
        /\ Done =>
              \/ exc = "ValueError"
              \/ /\ args.kind = "fly"
                 /\ UseDaq
                 /\ exc \in {"RuntimeError", "RequestAbort"}

C9_Witness ==
    /\ args.kind = "nd"
    /\ args.ev_bounds = <<>>
    /\ args.urad_bounds = <<>>
    /\ Done
    /\ exc = "ValueError"

\* C10 as stated: a scan given both energy bounds and angle bounds is
\* rejected with an error before any hardware motion.
C10_BothBoundsRejected ==
    (FlyOrNd /\ args.ev_bounds # <<>> /\ args.urad_bounds # <<>>) =>
        /\ ~MotionIssued
        /\ Done => exc # "none"

\* -------------------------------------------------------- C11 .. C20
DaqCommands ==
    {"daq.stage", "daq.getState", "daq.setRecord", "daq.setState.running",
     "daq.unstage", "daq.setState.configured"}

\* C11: in no-acquisition mode (fake_daq, or fake_all for the fly and ND
\* scans) the acquisition session is never touched, on any termination
\* path: no state read, no state write, no record write, and the state of
\* the session stays what it was when the scan was called.
C11_NoAcquisitionUntouched ==
    NoAcquisition(args) =>
        /\ \A i \in DOMAIN log : log[i] \notin DaqCommands
        /\ daqState = daqInit
        /\ daqRecord = "unset"

C11_Witness ==
    /\ args.kind = "fly"
    /\ args.fake_all
    /\ daqInit = "running"
    /\ Done
    /\ exc = "FailedStatus"
    /\ Issued("subscribe")

\* C14: stopping the acquisition (DaqHelper.unstage, stop_daq) reads the
\* state of the session; read as starting, paused or running, the session
\* is set to configured; read as anything else (configured, error), no
\* state is set and the session stays as it is.
C14_StopOnlyWhenActive ==
    [][(Cur \in {"unstage_daq", "stop_daq"} /\ log' # log) =>
          LET new == SubSeq(log', Len(log) + 1, Len(log'))
          IN  /\ "daq.getState" \in {new[i] : i \in DOMAIN new}
              /\ IF daqState \in {"starting", "paused", "running"}
                 THEN /\ daqState' = "configured"
                      /\ new[Len(new)] = "daq.setState.configured"
                 ELSE /\ daqState' = daqState
                      /\ \A i \in DOMAIN new :
                            new[i] \notin {"daq.setState.configured",
                                           "daq.setState.running"}]_vars

C14_Witness ==
    /\ args.kind = "fly"
    /\ daqInit = "error"
    /\ daqState = "error"
    /\ Len(log) >= 2
    /\ SubSeq(log, Len(log) - 1, Len(log)) = <<"daq.unstage", "daq.getState">>

\* the subscriptions of the handler: all but the other party's
OwnSubs == subs \ {0}

\* C12: after any sequence of start_requests, stop_requests, stage and
\* unstage calls on one handler, it has at most one active subscription,
\* and its cbid is set exactly when it has one (and is that subscription).
C12_AtMostOneSubscription ==
    /\ Cardinality(OwnSubs) <= 1
    /\ cbid # None <=> Cardinality(OwnSubs) = 1
    /\ cbid # None => OwnSubs = {cbid}

C12_Witness ==
    /\ CallsMade = 3
    /\ log[1] = "call.start_requests"
    /\ log[Len(log) - 2] = "call.stage"
    /\ cbid = 3
    /\ subs = {0, 3}

\* C13: stop_requests on a handler that has no subscription issues no
\* unsubscribe and changes nothing; stop_requests called a second time
\* issues no unsubscribe and leaves what the first call left.
C13_StopIdempotent ==
    LET once == stop_requests(handler)
        twice == stop_requests([once EXCEPT !.calls = <<>>])
    IN  /\ cbid = None => once = handler
        /\ twice.calls = <<>>
        /\ twice.subs = once.subs
        /\ twice.cbid = once.cbid
        /\ twice.nextCid = once.nextCid

C13_Witness ==
    log = <<"call.start_requests", "subscribe", "call.stop_requests",
            "unsubscribe", "call.stop_requests">>

\* C15: expanding the bounds <<lo, hi>> with num_steps = n > 0 gives
\* exactly 2n + 2 points: the n + 2 evenly spaced points from lo to hi
\* inclusive, in order, then the n interior points in reverse order; with
\* n = 0 the bounds are used unchanged.
C15_ExpansionShape ==
    Len(fnOut) >= 1 =>
        LET b == fnIn.bounds
            n == fnIn.num_steps
            pts == fnOut[1]
        IN  IF n > 0
            THEN /\ Len(pts) = 2 * n + 2
                 /\ \A k \in 1..(n + 2) :
                       (n + 1) * (pts[k] - b[1]) = (k - 1) * (b[2] - b[1])
                 /\ \A j \in 1..n : pts[n + 2 + j] = pts[n + 2 - j]
            ELSE pts = b

C15_Witness ==
    /\ fnIn.bounds = <<0, TrajGrid>>
    /\ fnIn.num_steps = 2
    /\ Len(fnOut) >= 1
    /\ fnOut[1] = <<0, TrajGrid \div 3, (2 * TrajGrid) \div 3, TrajGrid,
                    (2 * TrajGrid) \div 3, TrajGrid \div 3>>

\* C16: rebasing is a cyclic rotation of the trajectory - the same points
\* in the same cyclic order - whose first element is a point nearest to
\* the current position; when several points are equally near, the one of
\* lowest index in the input comes first.
C16_RebaseRotation ==
    Len(fnOut) = 2 =>
        LET pts == fnOut[1]
            out == fnOut[2]
            L == Len(pts)
            s == fnIn.start_point
        IN  /\ Len(out) = L
            /\ \E idx \in 0..(L - 1) :
                  /\ \A k \in 1..L : out[k] = pts[((k - 1 + idx) % L) + 1]
                  /\ \A j \in 0..(L - 1) :
                        Abs(pts[idx + 1] - s) <= Abs(pts[j + 1] - s)
                  /\ \A j \in 0..(idx - 1) :
                        Abs(pts[j + 1] - s) > Abs(pts[idx + 1] - s)

\* two points equally near: <<0, G/2, G, G/2>> from G/2 starts at index 1
C16_Witness ==
    /\ fnIn.bounds = <<0, TrajGrid>>
    /\ fnIn.num_steps = 1
    /\ fnIn.start_point = TrajGrid \div 2
    /\ Len(fnOut) = 2
    /\ fnOut[2] = <<TrajGrid \div 2, TrajGrid, TrajGrid \div 2, 0>>

\* C17: over the operating range, away from the singular configuration
\* (sin(alpha) = sin(beta)), the grating pitch calc_grating_pitch gives for
\* the energy calc_mono_ev gives for a pitch g, at the same pre-mirror
\* pitch, differs from g by less than a tolerance: here one microradian.
C17_RoundTrip ==
    Len(fnOut) = 2 =>
        /\ fnOut[1].den # 0
        /\ Abs(fnOut[2] - 10 * fnIn.grating) < 10

C17_Witness ==
    /\ fnIn = [grating |-> 150000, pre_mirror |-> 158000]
    /\ Len(fnOut) = 2
    /\ fnOut[1].den > 0
    /\ fnOut[2] # 10 * fnIn.grating

\* C18 as stated: a move_to issued while the stepper of an earlier move
\* is running cancels that move - from the start of the new stepper on,
\* no earlier stepper changes the position: only the stepper started last
\* ever makes a position update.
C18_OnlyLatestStepperMoves ==
    [][\A i \in DOMAIN steppers :
          (steppers[i].pc = "step" /\ steppers'[i].pc # "step")
              => i = Len(steppers)]_vars

\* the stepper of the first move about to update the position while the
\* stepper of the second move runs and the flag is down
C18_Witness ==
    /\ Len(steppers) = 2
    /\ steppers[1].pc = "step"
    /\ steppers[2].pc = "step"
    /\ ~motor.stop

\* the steppers that were running when stop() was called
AtStop == {i \in DOMAIN steppers : steppers[i].atStop}

C19_AtMostOneLateUpdate ==
    motor.stopped =>
        \A i \in AtStop :
            LET t == steppers[i]
            IN  /\ t.late <= 1
                /\ ~Live(t) =>
                      \/ t.result = "failure"
                      \/ /\ t.result = "success"
                         /\ (t.late = 1 /\ AtStop = {i}) =>
                                position = t.goal

\* C19: once stop() is called during a move in flight, and for as long as
\* no new move is requested, the stepper makes at most one more position
\* update and then terminates, within one tick; it reports failure,
\* unless that update was the last step onto the goal, and then it
\* reports success.
C19_StopWithinOneTick ==
    /\ []C19_AtMostOneLateUpdate
    /\ \A i \in 1..MaxAxisCalls :
          (motor.stopped /\ i \in DOMAIN steppers /\ Live(steppers[i]))
              ~> (\/ i \notin DOMAIN steppers
                  \/ ~motor.stopped
                  \/ ~Live(steppers[i]))

C19_Witness ==
    /\ motor.stopped
    /\ AtStop = {1}
    /\ steppers[1].late = 1
    /\ steppers[1].result = "failure"

\* the one move of the axis so far, neither stopped nor superseded
SingleMove == Len(steppers) = 1 /\ ~steppers[1].disturbed

C20_StepsTowardsGoal ==
    SingleMove =>
        LET t == steppers[1]
            dist == Abs(t.goal - t.from)
            sign == IF t.goal > t.from THEN 1 ELSE -1
        IN  /\ t.result # "failure"
            /\ Abs(position - t.from) <= dist
            /\ Abs(t.goal - position) <= dist
            /\ (Live(t) /\ t.pc \notin {"last", "notify"}) =>
                  /\ position = t.from + sign * t.ticks * t.step_size
                  /\ position # t.goal
            /\ t.pc \in {"last", "notify"} => position = t.goal
            /\ ~Live(t) =>
                  /\ t.result = "success"
                  /\ position = t.goal
                  /\ (t.ticks - 1) * t.step_size < dist
                  /\ dist <= t.ticks * t.step_size

\* C20: with a velocity above 0, a single move_to(goal) that is neither
\* stopped nor superseded terminates after finitely many ticks with the
\* position exactly at the goal and reports success; until then each tick
\* moves the position one step (velocity x 0.1, 1 in the vernier variant)
\* towards the goal, never past it, and the last tick, taken when the
\* goal is at most one step away, puts it on the goal: as many ticks as
\* the distance holds steps, rounded up.
C20_SingleMoveReachesGoal ==
    /\ []C20_StepsTowardsGoal
    /\ (Len(steppers) = 1 /\ Live(steppers[1]))
          ~> /\ Len(steppers) >= 1
             /\ \/ steppers[1].disturbed
                \/ Len(steppers) > 1
                \/ /\ steppers[1].result = "success"
                   /\ position = steppers[1].goal

C20_Witness ==
    /\ SingleMove
    /\ steppers[1].result = "success"
    /\ steppers[1].from = 0
    /\ steppers[1].step_size = 1
    /\ steppers[1].ticks = 2
    /\ position = 2

\* ------------------------------------------------------------------- C25
\* the running phase of the ND scan: the handler has been staged
InSweeps == args.kind = "nd" /\ Issued("subscribe") /\ urad_bounds # <<>>

\* C25: in the ND scan every outer step performs exactly one full sweep,
\* after the outer motors were moved and the detectors read: the grating
\* goes to bounds[1] and then back to bounds[0].  The grating is at
\* bounds[0] when an outer step starts and when the last one has completed,
\* and a scan that completes has moved the grating twice per outer step
\* (and once in the setup).
C25_OneSweepPerOuterStep ==
    InSweeps =>
        /\ Cur = "one_nd_step" => position = urad_bounds[1]
        /\ (Cur = "mv_set" /\ Prog[pc].arg = 1) =>
              /\ log[Len(log)] = "outer.mv"
              /\ position = urad_bounds[1]
        /\ (Cur = "mv_set" /\ Prog[pc].arg = 0) =>
              /\ log[Len(log)] \in {"mv", "request"}
              /\ Count("mv") = 2 * Count("outer.mv")
              /\ goal = urad_bounds[2]
              /\ position = urad_bounds[2]
        /\ Count("mv") \in {2 * Count("outer.mv") + 1,
                            2 * Count("outer.mv"),
                            2 * Count("outer.mv") - 1}
        /\ (Done /\ exc = "none") =>
              /\ position = urad_bounds[1]
              /\ Count("outer.mv") = args.moves
              /\ Count("mv") = 1 + 2 * args.moves

C25_Witness ==
    /\ InSweeps
    /\ Done
    /\ exc = "none"
    /\ args.moves = MaxMoves
    /\ Count("outer.mv") = MaxMoves
    /\ position = urad_bounds[1]
    /\ urad_bounds[1] # urad_bounds[2]

\* ------------------------------------------------------------------- C26
\* C26: the setup snapshots the velocity, sets the settle delay, moves to
\* the first point and only then sets the requested velocity: the snapshot
\* holds the velocity the axis had before the scan, and the move to the
\* first point is made at that velocity.
C26_SetupOrder ==
    FlyOrNd =>
        /\ Issued("settle.set") => Issued("velocity.read")
        /\ Issued("mv") => Issued("settle.set")
        /\ Issued("velocity.set") => Issued("mv")
        /\ Before("velocity.read", "settle.set")
        /\ Before("settle.set", "mv")
        /\ Before("mv", "velocity.set")
        /\ Issued("velocity.read") => original_speed = 20
        /\ ~Issued("velocity.set") => velocity = 20

C26_Witness ==
    /\ FlyOrNd
    /\ Issued("velocity.set")
    /\ velocity = args.grating_speed
    /\ velocity # original_speed
    /\ original_speed = 20
    /\ position = urad_bounds[1]

\* ------------------------------------------------------------------- C27
\* the sequencer (duration scan or ND scan) has commanded a motion: a move
\* of the grating after the one of the setup, or a move of an outer motor
SequencerMotion == Count("mv") >= 2 \/ Issued("outer.mv")

\* C27: the acquisition (unless disabled) is running and the handler is
\* subscribed before the sequencer commands any motion, and the
\* acquisition is started before the handler subscribes.
C27_StartedBeforeSequencer ==
    FlyOrNd =>
        /\ SequencerMotion => Issued("subscribe")
        /\ (SequencerMotion /\ UseDaq) => Issued("daq.setState.running")
        /\ (Issued("subscribe") /\ UseDaq) =>
              /\ Issued("daq.setState.running")
              /\ Pos("daq.setState.running") < Pos("subscribe")

C27_Witness ==
    /\ args.kind = "nd"
    /\ UseDaq
    /\ Issued("outer.mv")
    /\ daqState = "running"
    /\ cbid # None

\* ------------------------------------------------------------------- C29
DurationScan == args.kind \in {"fly", "vernier"}

\* the bounds as given or as converted from the energies, before any
\* expansion
ResolvedBounds ==
    IF args.urad_bounds # <<>> THEN args.urad_bounds
    ELSE [k \in 1..Len(args.ev_bounds) |->
             IF args.kind = "vernier" THEN ev_to_urad(args.ev_bounds[k])
             ELSE calc_pitch(args.ev_bounds[k])]

\* the first move of the scan has been commanded and has not completed:
\* the axis is still where it was when the scan was called
FirstMoveCommanded == Count("mv") = 1 /\ Cur = "mv_wait"

C30_StartsAtNearestPoint ==
    (DurationScan /\ FirstMoveCommanded) =>
        \A k \in DOMAIN urad_bounds :
            Abs(goal - position) <= Abs(urad_bounds[k] - position)

\* with extra steps the scan does start at the nearest point
C30_NearestWithSteps ==
    (DurationScan /\ FirstMoveCommanded /\ args.num_steps > 0) =>
        \A k \in DOMAIN urad_bounds :
            Abs(goal - position) <= Abs(urad_bounds[k] - position)

\* ------------------------------------------------------------------- C28
\* C28: when angle bounds are given the resolved bounds are exactly those,
\* whatever the energy bounds are; when only energy bounds are given each
\* resolved bound is the pitch of the energy bound at the same place, in
\* the same order, computed with the mirror angle of the supplied source
\* when one is given.
C28_BoundsResolution ==
    (fnOut # <<>> /\ ~fnOut[1].raised) =>
        IF fnIn.urad_bounds # <<>>
        THEN fnOut[1].value = fnIn.urad_bounds
        ELSE /\ Len(fnOut[1].value) = Len(fnIn.ev_bounds)
             /\ \A k \in DOMAIN fnIn.ev_bounds :
                    fnOut[1].value[k] =
                        IF fnIn.pre_mirror_pos = None
                        THEN calc_pitch(fnIn.ev_bounds[k])
                        ELSE calc_pitch_at(fnIn.ev_bounds[k],
                                           fnIn.pre_mirror_pos)

C28_Witness ==
    /\ fnOut # <<>>
    /\ fnIn.urad_bounds = <<>>
    /\ fnIn.ev_bounds = <<1, 3>>
    /\ fnIn.pre_mirror_pos = 2
    /\ fnOut[1].value = <<14, 6>>

\* ------------------------------------------------------------------- C21
\* C21: for every move of the simulated axis that reports success, the
\* last position update - the position put on the goal and the readback
\* signal written - comes before the done notification, so that whoever
\* sees the move reported done reads the position (and the readback) at
\* the goal.
C21_DoneSeesGoal ==
    [][\A i \in DOMAIN steppers :
          (steppers[i].pc = "notify" /\ steppers'[i].pc = "done") =>
              /\ position = steppers[i].goal
              /\ HasReadback => motor.readback = steppers[i].goal]_vars

\* with no other update thread about, the order of update_thread does give
\* the observer the goal
C21_DoneSeesGoalWhenAlone ==
    (Len(steppers) = 1 /\ steppers[1].pc = "notify") =>
        /\ position = steppers[1].goal
        /\ HasReadback => motor.readback = steppers[1].goal

\* the stepper of the second move about to report success while the one
\* of the first move has carried the position away from its goal
C21_Witness ==
    /\ Len(steppers) = 2
    /\ steppers[2].pc = "notify"
    /\ position # steppers[2].goal

\* ------------------------------------------------------------------- C22
\* C22: move_to(goal) with the position still unset sets the position to
\* the goal at once and reports success; move_to(goal) with the goal equal
\* to the position reports success at once and leaves the position; in
\* both cases no update thread is started and the stop flag is left as it
\* was.
C22_ImmediateMoves ==
    [][(motor'.calls = motor.calls + 1 /\ motor'.op.name = "move_to") =>
          LET g == motor'.op.goal
              immediate == /\ motor'.op.reported
                           /\ steppers' = steppers
                           /\ motor'.stop = motor.stop
                           /\ motor'.caller = "idle"
                           /\ motor'.pending = None
          IN  /\ position = None =>
                    /\ position' = g
                    /\ HasReadback => motor'.readback = g
                    /\ immediate
              /\ (position # None /\ g = position) =>
                    /\ position' = position
                    /\ motor'.readback = motor.readback
                    /\ immediate]_vars

\* a move_to onto the position the axis is at, made while the update
\* thread of an earlier move runs
C22_Witness ==
    /\ motor.op = MoveOp(position, TRUE)
    /\ motor.calls = 2
    /\ Len(steppers) = 1
    /\ Live(steppers[1])
    /\ ~motor.stop
    /\ motor.caller = "idle"

\* ------------------------------------------------------------------- C23
\* C23: when the mirror read fails inside the energy-update callback, that
\* one update is dropped and logged: nothing is written to the request
\* channel for it, the subscription stays as it is, the scan is not
\* disturbed, and the later notifications are still answered.
C23_FailedUpdateDropped ==
    [][upd'.logged # upd.logged =>
          /\ upd'.logged = upd.logged + 1
          /\ upd'.requests = upd.requests
          /\ upd'.queue = Tail(upd.queue)
          /\ upd'.phase = upd.phase
          /\ UNCHANGED <<subs, cbid, nextCid, position, planVars>>]_vars

\* a request written for a notification that came after a failed update
C23_Witness ==
    /\ upd.kind = "handler"
    /\ upd.logged = 1
    /\ upd.notes = 2
    /\ upd.phase = "running"
    /\ cbid \in subs
    /\ Len(upd.requests) = 1
    /\ upd.requests[1].after = 1

\* ------------------------------------------------------------------- C24
\* C24: every notification the callback answers is answered with exactly
\* one write that does not wait, of the energy computed from the notified
\* position and the mirror angle as it is when the callback runs, not as
\* it was when the scan started.
C24_MirrorReadPerUpdate ==
    /\ \A k \in DOMAIN upd.requests :
          LET r == upd.requests[k]
          IN  /\ r.mirror = r.current
              /\ r.energy = calc_E(r.value, r.current)
              /\ ~r.wait
    /\ upd.notes = Len(upd.queue) + Len(upd.requests) + upd.logged

\* the part that holds for both callbacks: one write that does not wait,
\* or one logged failure, for every notification answered
C24_OneWritePerUpdate ==
    /\ \A k \in DOMAIN upd.requests : ~upd.requests[k].wait
    /\ upd.notes = Len(upd.queue) + Len(upd.requests) + upd.logged
    /\ upd.kind = "handler" =>
          \A k \in DOMAIN upd.requests :
              LET r == upd.requests[k]
              IN  /\ r.mirror = r.current
                  /\ r.energy = calc_E(r.value, r.current)

\* the vernier callback has written an energy for a mirror angle that the
\* mirror no longer has
C24_Witness ==
    /\ upd.kind = "vernier"
    /\ Len(upd.requests) = 1
    /\ upd.requests[1].mirror # upd.requests[1].current
    /\ upd.requests[1].energy #
           calc_E(upd.requests[1].value, upd.requests[1].current)

\* -------------------------------------------------------- C31 .. C38
\* ------------------------------------------------------------------- C31
\* C31: a scan never transitions a session it did not start: when the
\* acquisition start fails because the session is not configured, the
\* session is, once the scan has ended, in the state it was in when the
\* scan was called.
C31_ForeignSessionUntouched ==
    (UseDaq /\ daqInit # "configured" /\ Done) => daqState = daqInit

\* a scan called while the session was running for someone else has ended
\* with the error of the acquisition start and has stopped that session
C31_Witness ==
    /\ UseDaq
    /\ daqInit = "running"
    /\ Done
    /\ exc = "RuntimeError"
    /\ ~Issued("daq.setState.running")
    /\ Issued("daq.setState.configured")
    /\ daqState = "configured"

\* ------------------------------------------------------------------- C32
\* C32: once the unsubscribe of the teardown has returned, the callback
\* writes nothing more to the request channel, however the teardown and the
\* notifications interleave - a notification that was under way when the
\* unsubscribe was called included.
C32_NoWriteAfterUnsubscribe ==
    [][upd.phase = "done" => upd'.requests = upd.requests]_vars

\* the handler has unsubscribed while a notification it was sent is still
\* waiting for its callback to run
C32_Witness ==
    /\ upd.kind = "handler"
    /\ upd.phase = "done"
    /\ cbid = None
    /\ subs = {}
    /\ upd.queue # <<>>

\* ------------------------------------------------------------------- C33
\* C33: energy requests are written only while the callback is
\* subscribed: none during the setup, while the axis is moved to the first
\* point of the trajectory, when the callback is not subscribed yet; the
\* first write comes after the subscribe, with a move of the sequencer.
C33_NoRequestBeforeSubscribe ==
    /\ ~Issued("subscribe") => ~Issued("request")
    /\ Issued("request") =>
          /\ Pos("subscribe") < Pos("request")
          /\ Count("mv") >= 2
    /\ Issued("subscribe") =>
          /\ Issued("mv")
          /\ Pos("mv") < Pos("subscribe")
    /\ (Count("mv") = 1 /\ Cur = "mv_wait") => ~OwnCallbackActive

C33_Witness ==
    /\ Issued("request")
    /\ Count("request") = 1
    /\ Count("mv") = 2
    /\ OwnCallbackActive
    /\ position = goal

\* ------------------------------------------------------------------- C34
\* C34: with the acquisition enabled, a scan called with neither energy
\* bounds nor angle bounds is refused before the session is sent to
\* running: the session is never started for such a call, in the fly scan,
\* the ND scans and the vernier scan.
C34_BoundsCheckedBeforeDaqStart ==
    (UseDaq /\ args.ev_bounds = <<>> /\ args.urad_bounds = <<>>) =>
        ~Issued("daq.setState.running")

\* the ND scans do check the bounds first
C34_NdChecksBoundsFirst ==
    (args.kind = "nd" /\ UseDaq /\ args.ev_bounds = <<>>
        /\ args.urad_bounds = <<>>) =>
        ~Issued("daq.setState.running")

\* a fly scan without bounds has started the session and ended with the
\* ValueError of calculate_bounds
C34_Witness ==
    /\ args.kind = "fly"
    /\ UseDaq
    /\ args.ev_bounds = <<>>
    /\ args.urad_bounds = <<>>
    /\ Done
    /\ exc = "ValueError"
    /\ Pos("daq.setState.running") < Pos("daq.setState.configured")

\* ------------------------------------------------------------------- C35
\* the plan is inside a finally block: teardown code is running
Teardown == ~Done /\ InFinally(Prog, pc)

\* C35: the teardown changes the subscription, the state of the session and
\* the velocity of the axis and nothing else: the settle delay written
\* during the setup is left as it is, so that after the scan the settle
\* delay of the axis is the delay argument of the scan and not what it was
\* before.
C35_SettleDelayLeft ==
    /\ []((Done /\ Issued("settle.set")) => settle_time = args.delay)
    /\ [][Teardown => UNCHANGED <<settle_time, position, goal, daqRecord,
                                 urad_bounds, original_speed>>]_vars

C35_Witness ==
    /\ FlyOrNd
    /\ Done
    /\ exc = "none"
    /\ Issued("velocity.restore")
    /\ Issued("unsubscribe")
    /\ velocity = original_speed
    /\ settle_time = args.delay
    /\ settle_time # 3

\* ------------------------------------------------------------------- C36
\* the number of places of pts that hold the value v
Times(pts, v) == Cardinality({k \in DOMAIN pts : pts[k] = v})

\* pts, taken as a cycle, walks the n + 2 interpolation points of the
\* bounds b to and fro: neighbours in the cycle are one interval apart and
\* differ, each bound is met once and each interior point twice
Oscillation(pts, b, n) ==
    LET L == Len(pts)
        next(k) == pts[(k % L) + 1]
    IN  /\ \A k \in 1..L :
              /\ (n + 1) * Abs(next(k) - pts[k]) = Abs(b[2] - b[1])
              /\ next(k) # pts[k]
        /\ Times(pts, b[1]) = 1
        /\ Times(pts, b[2]) = 1
        /\ \A j \in 1..n :
              Times(pts, b[1] + (j * (b[2] - b[1])) \div (n + 1)) = 2

\* C36 as stated: for every expanded trajectory (num_steps > 0), before and
\* after the rebasing, cyclically consecutive points are neighbouring
\* interpolation points one interval apart, each bound appears once and
\* each interior point twice, and no move is of zero length.
C36_OscillationAlways ==
    fnIn.num_steps > 0 =>
        \A i \in DOMAIN fnOut :
            Oscillation(fnOut[i], fnIn.bounds, fnIn.num_steps)

\* C36 amended: the same for bounds that differ.
C36_OscillationOfDistinctBounds ==
    (fnIn.num_steps > 0 /\ fnIn.bounds[1] # fnIn.bounds[2]) =>
        \A i \in DOMAIN fnOut :
            Oscillation(fnOut[i], fnIn.bounds, fnIn.num_steps)

\* a trajectory of 6 points rotated to start at an interior point
C36_Witness ==
    /\ fnIn.num_steps = 2
    /\ fnIn.bounds = <<TrajGrid, 0>>
    /\ Len(fnOut) = 2
    /\ Len(fnOut[2]) = 6
    /\ fnOut[2][1] \notin {0, TrajGrid}
    /\ Oscillation(fnOut[2], fnIn.bounds, 2)

\* ========================================================= continuous_scan
\* continuous_scan as a function of its arguments: the groups of
\* (motor, start, stop) in *args, each group held as <<start, stop>> at the
\* place of its motor, the count of arguments left over after the last
\* whole group, num and sawtooth.  The result is the ValueError, or the
\* point list that each motor has in the arguments of duration_scan.
MaxNum == 3

\* start and stop values that np.linspace divides into whole numbers
SawGrid == Factorial(MaxNum)

\* np.linspace(start, stop, num)
np_linspace(start, stop, num) ==
    IF num >= 2 THEN Linspace(<<start, stop>>, num - 2)
    ELSE IF num = 1 THEN <<start>>
    ELSE <<>>

\* mutant: the reversed points appended whole
continuous_scanMutWholeReverse(groups, num, sawtooth) ==
    [m \in DOMAIN groups |->
        LET points == np_linspace(groups[m][1], groups[m][2], num)
        IN  IF sawtooth THEN points \o Reverse(points) ELSE points]

\* "for motor, start, stop in partition(3, args)": points[:-1] +
\* list(reversed(points))[:-1] when sawtooth
continuous_scan(groups, num, sawtooth) ==
    [m \in DOMAIN groups |->
        LET points == np_linspace(groups[m][1], groups[m][2], num)
            n      == Len(points)
        IN  IF sawtooth
            THEN SubSeq(points, 1, n - 1) \o SubSeq(Reverse(points), 1, n - 1)
            ELSE points]

SawValues == {0, SawGrid, 2 * SawGrid}

SawInputs ==
    [groups : {<<g>> : g \in SawValues \X SawValues}
                \cup ((SawValues \X SawValues) \X (SawValues \X SawValues)),
     stray : 0..1,
     num : 0..MaxNum,
     sawtooth : BOOLEAN]

InitSaw ==
    /\ PlanIdle
    /\ AxisIdle
    /\ UpdIdle
    /\ velocity = 0
    /\ position = 0
    /\ subs = {}
    /\ nextCid = 0
    /\ cbid = None
    /\ log = <<>>
    /\ fnIn \in SawInputs
    /\ fnOut = <<>>

\* one call of continuous_scan up to the call of duration_scan
CallContinuousScan ==
    /\ fnOut = <<>>
    /\ fnOut' =
           IF fnIn.stray # 0
           THEN <<[raised |-> TRUE, value |-> <<>>]>>
           ELSE <<[raised |-> FALSE,
                   value |-> continuous_scan(fnIn.groups, fnIn.num,
                                             fnIn.sawtooth)]>>
    /\ UNCHANGED <<planVars, subVars, velocity, position, log, fnIn,
                   axisVars, upd>>

NextSaw == CallContinuousScan

SpecSaw == InitSaw /\ [][NextSaw]_vars

\* ------------------------------------------------------------------- C37
\* the k-th of num points from start to stop (k from 0)
SawPoint(g, num, k) == g[1] + (k * (g[2] - g[1])) \div (num - 1)

\* p0 .. p(num-2) followed by p(num-1) .. p1
SawCycle(g, num) ==
    [k \in 1..(2 * (num - 1)) |->
        IF k <= num - 1 THEN SawPoint(g, num, k - 1)
                        ELSE SawPoint(g, num, (2 * num) - 1 - k)]

\* the list of each motor is the stated one
SawLists ==
    \A m \in DOMAIN fnIn.groups :
        LET g   == fnIn.groups[m]
            pts == fnOut[1].value[m]
        IN  IF fnIn.sawtooth
            THEN /\ pts = SawCycle(g, fnIn.num)
                 /\ Len(pts) = 2 * (fnIn.num - 1)
            ELSE pts = [k \in 1..fnIn.num |-> SawPoint(g, fnIn.num, k - 1)]

\* in the sawtooth list of motor m each end point is met once in a cycle
\* and no two cyclically consecutive points are equal
SawDistinct(m) ==
    LET g   == fnIn.groups[m]
        pts == fnOut[1].value[m]
        L   == Len(pts)
    IN  /\ Times(pts, g[1]) = 1
        /\ Times(pts, g[2]) = 1
        /\ \A k \in 1..L : pts[(k % L) + 1] # pts[k]

SawReturned == fnOut # <<>> /\ ~fnOut[1].raised /\ fnIn.num >= 2

\* C37 as stated: with sawtooth and num >= 2 each motor gets p0..p(num-2)
\* followed by p(num-1)..p1, of length 2*(num-1), each end point visited
\* once per cycle and no two consecutive points equal; without sawtooth
\* each motor gets p0..p(num-1) in order.
C37_SawtoothCycle ==
    SawReturned =>
        /\ SawLists
        /\ fnIn.sawtooth => \A m \in DOMAIN fnIn.groups : SawDistinct(m)

\* C37 amended: the lists are the stated ones, and the end points are
\* visited once and consecutive points differ for each motor whose start
\* and stop differ.
C37_SawtoothCycleOfDistinctEnds ==
    SawReturned =>
        /\ SawLists
        /\ fnIn.sawtooth =>
               \A m \in DOMAIN fnIn.groups :
                   fnIn.groups[m][1] # fnIn.groups[m][2] => SawDistinct(m)

\* two motors over three points each: forward 0, 3, back from 6 to 3
C37_Witness ==
    /\ SawReturned
    /\ fnIn.sawtooth
    /\ fnIn.num = 3
    /\ Len(fnIn.groups) = 2
    /\ fnIn.groups[1] = <<0, SawGrid>>
    /\ fnOut[1].value[1] = <<0, SawGrid \div 2, SawGrid, SawGrid \div 2>>
    /\ SawDistinct(2)

\* ------------------------------------------------------------------- C38
\* C38: the cleanup of the vernier duration scan removes a subscription
\* from the axis only when the scan has subscribed: a cleanup that runs
\* before the subscribe call leaves the subscriptions of the axis as they
\* are.
C38_CleanupUnsubscribesOwnId ==
    [][(args.kind = "vernier" /\ Cur = "vernier_unsubscribe"
            /\ ~Issued("subscribe"))
        => subs' = subs]_vars

\* the scan failed before it subscribed, and the subscription 0 that
\* another party held on the axis is gone after the cleanup
C38_Witness ==
    /\ args.kind = "vernier"
    /\ Done
    /\ ~Issued("subscribe")
    /\ Issued("unsubscribe")
    /\ nextCid = 1
    /\ cbid = 0
    /\ subs = {}

====
